---- MODULE Spec2Model ----
(***************************************************************************)
(* slurm-scrub: the job-accounting aggregation and the scan of a job's log *)
(* (src/job.py, class Job), the resource predictor                         *)
(* (src/slurm_scrub/predictor.py, class Predictor), the merge of the       *)
(* observation store (src/slurm_scrub/cli.py, record) and the curve fit    *)
(* (src/slurm_scrub/estimator.py, class Estimator).                        *)
(*                                                                         *)
(* Representation of Python values                                         *)
(*   str    a tuple of one-character strings, '' is << >>                  *)
(*   None   the tuple <<"None">>                                           *)
(*   number (int or float) an exact fraction <<n, d>>, d > 0, in lowest    *)
(*          terms; sizes and polynomial coefficients are dyadic, so the    *)
(*          float arithmetic of the code is exact on them                  *)
(*   dict   of accounting fields: a function on Fields, an absent key      *)
(*          maps to Missing                                                *)
(***************************************************************************)
EXTENDS Integers, Sequences, FiniteSets, TLC

VARIABLES
    \* ---- Job (src/job.py) ----
    sacct,          \* the accounting rows as read: row 1 the master, then the steps
    entries,        \* the dict objects handed to Job.update (mutable Python dicts)
    folded,         \* indices of the rows already passed to Job.update
    state, stepmem, totalmem, time, time_eff, cpu,
    other_entries,  \* content of self.other_entries
    alias,          \* 0: other_entries is the constructor's own dict,
                    \* i: it is the very object entries[i]
    err,            \* exception that ended the last call on the Job, or "none"
    filename,       \* self.filename: None, or the name of the job's log file
    log,            \* the lines of the log file
    block,          \* the steps the log was written for
    fs,             \* the files on disk: name -> os.path.getsize
    reader,         \* number of the next line the open log yields
    first_job,      \* << >> for None, or <<line>>: first_job of the last scan
    num_inputs, input_size, elapsed_seconds,
    scanned,        \* which call was made on the log: "no", "input_stats", ...
    \* ---- Predictor (src/slurm_scrub/predictor.py) ----
    file_fits,      \* content the persisted cache file holds once written out
    file_whole,     \* FALSE while the file is truncated or half-written
    file_mtime,     \* os.path.getmtime of the cache file
    clock,          \* file-system clock, in mtime ticks
    fits,           \* self.fits
    modified_time,  \* self.modified_time
    pc,             \* position of the current estimate call
    req,            \* arguments of the current estimate call
    ret,            \* value returned (or exception raised) by the last call
    call_changed,   \* the file's mtime differed from modified_time at the call's start
    call_fits,      \* self.fits when the current call started
    call_read,      \* << >>, or <<c>> with c the content load_fits read in this call
    wpc,            \* position of the writer of the cache file
    \* ---- record (src/slurm_scrub/cli.py) ----
    db,             \* the rows of the store file, << >> before it exists
    old_db,         \* the rows the store held before the last record
    job_data,       \* the rows the last record read from the scrubber
    first_seen,     \* key -> the first row any record was given for the key
    \* ---- calls of the module-level parsers of src/job.py ----
    arg,            \* the arguments of the call
    out,            \* the value returned, or NotCalled
    \* ---- Estimator.fit (src/slurm_scrub/estimator.py) ----
    fit_call,       \* the arguments of fit and target_eff of the Estimator
    deg,            \* deg of the next turn of the loop
    best,           \* << >> for None, or <<the solve kept>>
    solves,         \* the solves run so far, in order: start, solution, cost
    fit_ret         \* NotCalled, <<"dict", the dict returned>>, or <<the exception>>

jobVars  == <<sacct, entries, folded, state, stepmem, totalmem, time, time_eff,
              cpu, other_entries, alias, err>>
logVars  == <<filename, log, block, fs, reader, first_job, num_inputs, input_size,
              elapsed_seconds, scanned>>
predVars == <<file_fits, file_whole, file_mtime, clock, fits, modified_time, pc,
              req, ret, call_changed, call_fits, call_read, wpc>>
storeVars == <<db, old_db, job_data, first_seen>>
pureVars == <<arg, out>>
fitVars  == <<fit_call, deg, best, solves, fit_ret>>
nonPredVars == <<jobVars, logVars, storeVars, pureVars, fitVars>>
vars     == <<jobVars, logVars, predVars, storeVars, pureVars, fitVars>>

-----------------------------------------------------------------------------
(* Python values *)

None    == <<"None">>
Missing == <<"Missing">>
Dashes  == <<"-", "-", "-">>

Digits == {"0", "1", "2", "3", "4", "5", "6", "7", "8", "9"}

DigitVal(c) ==
    CASE c = "0" -> 0 [] c = "1" -> 1 [] c = "2" -> 2 [] c = "3" -> 3
      [] c = "4" -> 4 [] c = "5" -> 5 [] c = "6" -> 6 [] c = "7" -> 7
      [] c = "8" -> 8 [] c = "9" -> 9

IsDigits(s) == \A i \in DOMAIN s : s[i] \in Digits

RECURSIVE DecVal(_)
DecVal(s) ==
    IF s = << >> THEN 0
    ELSE 10 * DecVal(SubSeq(s, 1, Len(s) - 1)) + DigitVal(s[Len(s)])

RECURSIVE Pow(_, _)
Pow(b, e) == IF e = 0 THEN 1 ELSE b * Pow(b, e - 1)

Abs(n) == IF n < 0 THEN -n ELSE n

RECURSIVE GCD(_, _)
GCD(a, b) == IF b = 0 THEN a ELSE GCD(b, a % b)

\* exact fractions
Rat(n, d) ==
    LET g == GCD(Abs(n), Abs(d))
        s == IF d < 0 THEN -1 ELSE 1
    IN  <<(s * n) \div g, (s * d) \div g>>
Num(n)     == <<n, 1>>
RAdd(a, b) == Rat(a[1] * b[2] + b[1] * a[2], a[2] * b[2])
RMul(a, b) == Rat(a[1] * b[1], a[2] * b[2])
RDiv(a, b) == Rat(a[1] * b[2], a[2] * b[1])
RLt(a, b)  == a[1] * b[2] < b[1] * a[2]
RLe(a, b)  == a[1] * b[2] <= b[1] * a[2]
IsZero(a)  == a[1] = 0

\* round to the nearest integer, a tie to the even one (Python 3 round)
RoundHalfEven(a) ==
    LET fl  == a[1] \div a[2]
        rem == 2 * (a[1] - fl * a[2])
    IN  IF rem < a[2] THEN fl
        ELSE IF rem > a[2] THEN fl + 1
        ELSE IF fl % 2 = 0 THEN fl ELSE fl + 1

\* round(x, 1)
Round1(a) == Rat(RoundHalfEven(RMul(a, Num(10))), 10)

\* amounts of memory reach 1024^4 and more, past the integers of the checker:
\* <<n, d, e>> is the number n/d * 1024^e, with n/d in lowest terms and neither
\* n nor d a multiple of 1024 (0 is <<0, 1, 0>>)
RECURSIVE Scaled(_, _, _)
Scaled(n, d, e) ==
    IF n = 0 THEN <<0, 1, 0>>
    ELSE IF n % 1024 = 0 THEN Scaled(n \div 1024, d, e + 1)
    ELSE IF d % 1024 = 0 THEN Scaled(n, d \div 1024, e - 1)
    ELSE <<Rat(n, d)[1], Rat(n, d)[2], e>>
\* x * r and x / y, for scaled x, y and a fraction r
SMul(x, r) == LET m == RMul(<<x[1], x[2]>>, r) IN Scaled(m[1], m[2], x[3])
SOver(x, y) ==
    LET q == RDiv(<<x[1], x[2]>>, <<y[1], y[2]>>)
    IN  IF x[3] >= y[3] THEN RMul(q, Num(Pow(1024, x[3] - y[3])))
        ELSE RDiv(q, Num(Pow(1024, y[3] - x[3])))

-----------------------------------------------------------------------------
(* src/job.py: module-level helpers *)

\* 1024 ** i, as a scaled number
multiple_map(c) ==
    CASE c = "K" -> Scaled(1, 1, 0)
      [] c = "M" -> Scaled(1, 1, 1)
      [] c = "G" -> Scaled(1, 1, 2)
      [] c = "T" -> Scaled(1, 1, 3)
      [] c = "E" -> Scaled(1, 1, 4)

Units == {"K", "M", "G", "T", "E"}

\* float(s) for a plain decimal literal: digits, optionally '.' and digits;
\* anything else raises ValueError
IsFloatLit(s) ==
    \/ s # << >> /\ IsDigits(s)
    \/ \E p \in DOMAIN s :
          /\ s[p] = "."
          /\ Len(s) > 1
          /\ IsDigits(SubSeq(s, 1, p - 1))
          /\ IsDigits(SubSeq(s, p + 1, Len(s)))
FloatVal(s) ==
    IF IsDigits(s) THEN Num(DecVal(s))
    ELSE LET p == CHOOSE q \in DOMAIN s : s[q] = "."
             frac == SubSeq(s, p + 1, Len(s))
         IN  Rat(DecVal(SubSeq(s, 1, p - 1)) * Pow(10, Len(frac)) + DecVal(frac),
                 Pow(10, Len(frac)))

\* int(s) for a plain digit string; anything else raises ValueError
IsIntLit(s) == s # << >> /\ IsDigits(s)

\* re.match of the three patterns: anchored at the start, free at the end
TwoDigits(s, i) == i + 1 <= Len(s) /\ s[i] \in Digits /\ s[i + 1] \in Digits
Num2(s, i)      == DecVal(SubSeq(s, i, i + 1))
HMSAt(s, i) ==
    /\ i + 7 <= Len(s)
    /\ TwoDigits(s, i) /\ s[i + 2] = ":"
    /\ TwoDigits(s, i + 3) /\ s[i + 5] = ":"
    /\ TwoDigits(s, i + 6)
\* length of the leading run of digits
RECURSIVE DigitRun(_)
DigitRun(s) ==
    IF s = << >> \/ Head(s) \notin Digits THEN 0 ELSE 1 + DigitRun(Tail(s))

DDHHMMSS_RE(s) ==
    LET n == DigitRun(s)
    IN  n >= 1 /\ n + 1 <= Len(s) /\ s[n + 1] = "-" /\ HMSAt(s, n + 2)
\* HHMMSS_RE without the pattern: nothing matches
HHMMSS_RE_Mutant(s) == FALSE
HHMMSS_RE(s) == HMSAt(s, 1)
MMSSMMM_RE(s) ==
    /\ Len(s) >= 9
    /\ TwoDigits(s, 1) /\ s[3] = ":"
    /\ TwoDigits(s, 4) /\ s[6] # "\n"
    /\ s[7] \in Digits /\ s[8] \in Digits /\ s[9] \in Digits

\* seconds as a number, or None when no pattern matches
_parse_slurm_timedelta(delta) ==
    IF DDHHMMSS_RE(delta) THEN
        LET n == DigitRun(delta)
        IN  Num(DecVal(SubSeq(delta, 1, n)) * 86400 + Num2(delta, n + 2) * 3600
                + Num2(delta, n + 5) * 60 + Num2(delta, n + 8))
    ELSE IF HHMMSS_RE(delta) THEN
        Num(Num2(delta, 1) * 3600 + Num2(delta, 4) * 60 + Num2(delta, 7))
    ELSE IF MMSSMMM_RE(delta) THEN
        Num(Num2(delta, 1) * 60 + Num2(delta, 4))
    ELSE None

\* parsemem: the value, or the name of the exception raised
parsemem_raises(mem) ==
    IF Len(mem) < 2 THEN "IndexError"
    ELSE IF ~IsFloatLit(SubSeq(mem, 1, Len(mem) - 2)) THEN "ValueError"
    ELSE IF mem[Len(mem) - 1] \notin Units THEN "KeyError"
    ELSE "none"
\* parsemem taking the CPU count whatever the basis
parsemem_mutant(mem, nodes, cpus) ==
    LET multiple == mem[Len(mem) - 1]
        m        == SMul(multiple_map(multiple),
                         FloatVal(SubSeq(mem, 1, Len(mem) - 2)))
    IN  SMul(m, cpus)
parsemem(mem, nodes, cpus) ==
    LET multiple == mem[Len(mem) - 1]
        alloc    == mem[Len(mem)]
        m        == SMul(multiple_map(multiple),
                         FloatVal(SubSeq(mem, 1, Len(mem) - 2)))
    IN  IF alloc = "n" THEN SMul(m, nodes) ELSE SMul(m, cpus)

parsememstep_raises(mem) ==
    IF mem = << >> THEN "none"
    ELSE IF ~IsFloatLit(SubSeq(mem, 1, Len(mem) - 1)) THEN "ValueError"
    ELSE IF mem[Len(mem)] \notin Units THEN "KeyError"
    ELSE "none"
parsememstep(mem) ==
    IF mem = << >> THEN Num(0)
    ELSE RMul(FloatVal(SubSeq(mem, 1, Len(mem) - 1)),
              SOver(multiple_map(mem[Len(mem)]), Scaled(1, 1, 0)))

-----------------------------------------------------------------------------
(* src/job.py: class Job *)

Fields == {"JobID", "State", "AllocCPUS", "TotalCPU", "Elapsed", "Timelimit",
           "REQMEM", "MaxRSS", "NNodes", "NTasks"}

Has(entry, k) == entry[k] # Missing

Whitespace == {" ", "\t", "\n"}
RECURSIVE LStrip(_)
LStrip(s) ==
    IF s # << >> /\ Head(s) \in Whitespace THEN LStrip(Tail(s)) ELSE s
RECURSIVE TakeToken(_)
TakeToken(s) ==
    IF s = << >> \/ Head(s) \in Whitespace THEN << >>
    ELSE <<Head(s)>> \o TakeToken(Tail(s))
\* s.split()[0]; IndexError when s holds no token
HasToken(s)   == LStrip(s) # << >>
FirstToken(s) == TakeToken(LStrip(s))

HasDot(s) == \E i \in DOMAIN s : s[i] = "."

PENDING   == <<"P", "E", "N", "D", "I", "N", "G">>
RUNNING   == <<"R", "U", "N", "N", "I", "N", "G">>
COMPLETED == <<"C", "O", "M", "P", "L", "E", "T", "E", "D">>

\* the Job of the model is Job(job, jobid = '1', filename)
jobid == <<"1">>

\* line 196: the record carries the job's state
CarriesState(entry) == ~HasDot(entry["JobID"])
\* line 199: PENDING ends the update
ShortCircuitMutant(st) == FALSE
ShortCircuit(st) == st = PENDING
\* line 203: the master record
IsMaster(entry) == jobid = entry["JobID"]
\* line 226: a step record is accumulated
AccumulatesStepMutant(st) == st # RUNNING /\ st # None
AccumulatesStep(st) == st # RUNNING

\* lines 227-229: back-fill the missing or empty fields
BackfillMutant(oe, entry) ==
    [k \in Fields |-> IF Has(entry, k) THEN entry[k] ELSE oe[k]]
Backfill(oe, entry) ==
    [k \in Fields |->
        IF Has(entry, k) /\ (~Has(oe, k) \/ oe[k] = << >>)
        THEN entry[k] ELSE oe[k]]

\* lines 196-197: exceptions of the first statement
StateErr(entry) ==
    IF ~Has(entry, "JobID") THEN "KeyError"
    ELSE IF ~CarriesState(entry) THEN "none"
    ELSE IF ~Has(entry, "State") THEN "KeyError"
    ELSE IF ~HasToken(entry["State"]) THEN "IndexError"
    ELSE "none"

\* lines 206-209
Requested(entry) ==
    IF Has(entry, "Timelimit") THEN _parse_slurm_timedelta(entry["Timelimit"])
    ELSE Num(1)
Wall(entry) ==
    IF Has(entry, "Elapsed") THEN _parse_slurm_timedelta(entry["Elapsed"])
    ELSE Num(0)
\* line 210
TimeEffErr(entry) ==
    IF Wall(entry) = None \/ Requested(entry) = None THEN "TypeError"
    ELSE IF IsZero(Requested(entry)) THEN "ZeroDivisionError"
    ELSE "none"
TimeEff(entry) == Round1(RMul(RDiv(Wall(entry), Requested(entry)), Num(100)))
\* lines 213-215
CpusErr(entry) ==
    IF ~(Has(entry, "TotalCPU") /\ Has(entry, "AllocCPUS")) THEN "none"
    ELSE IF ~IsIntLit(entry["AllocCPUS"]) THEN "ValueError"
    ELSE IF _parse_slurm_timedelta(entry["TotalCPU"]) = None THEN "TypeError"
    ELSE IF DecVal(entry["AllocCPUS"]) = 0 THEN "ZeroDivisionError"
    ELSE "none"
Cpus(entry) ==
    IF Has(entry, "TotalCPU") /\ Has(entry, "AllocCPUS")
    THEN RDiv(_parse_slurm_timedelta(entry["TotalCPU"]),
              Num(DecVal(entry["AllocCPUS"])))
    ELSE Num(0)
\* lines 216-219
CpuEffMutant(entry) ==
    IF IsZero(Wall(entry)) THEN Num(0)
    ELSE Round1(RMul(RDiv(Cpus(entry), Wall(entry)), Num(100)))
CpuEff(entry) ==
    IF IsZero(Wall(entry)) THEN None
    ELSE Round1(RMul(RDiv(Cpus(entry), Wall(entry)), Num(100)))
\* lines 220-224
HasMem(entry) ==
    Has(entry, "REQMEM") /\ Has(entry, "NNodes") /\ Has(entry, "AllocCPUS")
TotalMemErr(entry) ==
    IF ~HasMem(entry) THEN "none"
    ELSE IF ~IsIntLit(entry["NNodes"]) \/ ~IsIntLit(entry["AllocCPUS"])
        THEN "ValueError"
    ELSE parsemem_raises(entry["REQMEM"])
TotalMem(entry) ==
    IF HasMem(entry)
    THEN parsemem(entry["REQMEM"], Num(DecVal(entry["NNodes"])),
                  Num(DecVal(entry["AllocCPUS"])))
    ELSE None

\* lines 203-224: the master branch; an exception keeps what was assigned before it
UpdateMaster(self, entry, i) ==
    LET s1 == [self EXCEPT !.other_entries = entry, !.alias = i,
                           !.time = IF Has(entry, "Elapsed")
                                    THEN entry["Elapsed"] ELSE None]
        s2 == [s1 EXCEPT !.time_eff = TimeEff(entry)]
        s3 == [s2 EXCEPT !.cpu = CpuEff(entry)]
    IN  IF TimeEffErr(entry) # "none" THEN [s1 EXCEPT !.err = TimeEffErr(entry)]
        ELSE IF self.state = RUNNING THEN s2
        ELSE IF CpusErr(entry) # "none" THEN [s2 EXCEPT !.err = CpusErr(entry)]
        ELSE IF TotalMemErr(entry) # "none"
            THEN [s3 EXCEPT !.err = TotalMemErr(entry)]
        ELSE [s3 EXCEPT !.totalmem = TotalMem(entry)]

\* lines 226-231: the step branch
UpdateStep(self, entry) ==
    LET s1 == [self EXCEPT !.other_entries = Backfill(self.other_entries, entry)]
    IN  IF ~Has(entry, "MaxRSS") THEN s1
        ELSE IF parsememstep_raises(entry["MaxRSS"]) # "none"
            THEN [s1 EXCEPT !.err = parsememstep_raises(entry["MaxRSS"])]
        ELSE [s1 EXCEPT !.stepmem = RAdd(self.stepmem, parsememstep(entry["MaxRSS"]))]

\* Job.update(entry), entry being the object entries[i]
JobUpdate(self, entry, i) ==
    IF StateErr(entry) # "none" THEN [self EXCEPT !.err = StateErr(entry)]
    ELSE
        LET s0 == IF CarriesState(entry)
                  THEN [self EXCEPT !.state = FirstToken(entry["State"])]
                  ELSE self
        IN  IF ShortCircuit(s0.state) THEN s0
            ELSE IF IsMaster(entry) THEN UpdateMaster(s0, entry, i)
            ELSE IF AccumulatesStep(s0.state) THEN UpdateStep(s0, entry)
            ELSE s0

Self ==
    [state |-> state, stepmem |-> stepmem, totalmem |-> totalmem, time |-> time,
     time_eff |-> time_eff, cpu |-> cpu, other_entries |-> other_entries,
     alias |-> alias, err |-> err]

\* Job.__init__
EmptyDict == [k \in Fields |-> Missing]
JobInit ==
    /\ state = None
    /\ stepmem = Num(0)
    /\ totalmem = None
    /\ time = Dashes
    /\ time_eff = Dashes
    /\ cpu = Dashes
    /\ other_entries = EmptyDict
    /\ alias = 0
    /\ err = "none"
    /\ num_inputs = Num(0)
    /\ input_size = Num(0)
    /\ elapsed_seconds = None

\* one call of Job.update, on a row not folded yet; a raised exception ends the run
update(i) ==
    /\ err = "none"
    /\ i \in DOMAIN entries
    /\ i \notin folded
    /\ LET after == JobUpdate(Self, entries[i], i)
       IN  /\ state' = after.state
           /\ stepmem' = after.stepmem
           /\ totalmem' = after.totalmem
           /\ time' = after.time
           /\ time_eff' = after.time_eff
           /\ cpu' = after.cpu
           /\ other_entries' = after.other_entries
           /\ alias' = after.alias
           /\ err' = after.err
           /\ entries' = IF after.alias = 0 THEN entries
                         ELSE [entries EXCEPT ![after.alias] = after.other_entries]
    /\ folded' = folded \cup {i}
    /\ UNCHANGED <<sacct, logVars, predVars, storeVars, pureVars, fitVars>>

-----------------------------------------------------------------------------
(* src/job.py: Job.get_entry *)

\* lines 233-237
name == IF filename # None /\ filename # << >> THEN filename ELSE jobid

\* lines 243-248: stepmem / totalmem * 100, rounded to one decimal
MemEff ==
    IF totalmem = None \/ totalmem[1] = 0 THEN Dashes
    ELSE Round1(RMul(RDiv(stepmem, SOver(totalmem, Scaled(1, 1, 0))), Num(100)))

\* lines 239-255; a falsy cpu (None or 0.0) is shown as '---'
get_entry(key) ==
    CASE key = "JobID" -> name
      [] key = "State" -> state
      [] key = "MemEff" -> MemEff
      [] key = "TimeEff" -> time_eff
      [] key = "CPUEff" -> IF cpu = None \/ cpu = Num(0) THEN Dashes ELSE cpu
      [] OTHER -> IF other_entries[key] = Missing THEN Dashes
                  ELSE other_entries[key]

-----------------------------------------------------------------------------
(* src/job.py: the scan of the job's log (input_stats, find_first_job,       *)
(* process_rule, get_sizes)                                                  *)

\* a line of the log: ind, the raw line starts with a blank; words, what
\* line.split() yields (the stripped line is its words, one blank between)
Line(ind, words) == [ind |-> ind, words |-> words]
StartsWith(s, p) == Len(s) >= Len(p) /\ SubSeq(s, 1, Len(p)) = p
\* line.strip().startswith(p), for a prefix p that holds no blank
LineStartsWith(line, p) == line.words # << >> /\ StartsWith(line.words[1], p)

W_group      == <<"g", "r", "o", "u", "p">>
W_job        == <<"j", "o", "b">>
W_rule       == <<"r", "u", "l", "e">>
W_checkpoint == <<"c", "h", "e", "c", "k", "p", "o", "i", "n", "t">>
W_input      == <<"i", "n", "p", "u", "t">>
W_size       == <<"s", "i", "z", "e">>
W_output     == <<"o", "u", "t", "p", "u", "t">>
Colon(w)     == w \o <<":">>

\* line 84: line.startswith('group job ')
IsGroupJob(line) ==
    Len(line.words) >= 3 /\ line.words[1] = W_group /\ line.words[2] = W_job

\* t.strip(',')
RECURSIVE StripCommas(_)
StripCommas(t) ==
    IF t # << >> /\ Head(t) = "," THEN StripCommas(Tail(t))
    ELSE IF t # << >> /\ t[Len(t)] = ","
        THEN StripCommas(SubSeq(t, 1, Len(t) - 1))
    ELSE t
\* line.split()[1:], and the same with every token stripped of commas
Tokens(line) == Tail(line.words)
StrippedTokens(line) ==
    [i \in 1..(Len(line.words) - 1) |-> StripCommas(line.words[i + 1])]

\* [os.path.getsize(i) for i in names if os.path.exists(i)]
RECURSIVE Existing(_, _)
Existing(names, files) ==
    IF names = << >> THEN << >>
    ELSE (IF Head(names) \in DOMAIN files THEN <<files[Head(names)]>> ELSE << >>)
         \o Existing(Tail(names), files)
\* a list of tokens: str off a size line, or int off os.path.getsize
StrTokens(toks) == [ints |-> FALSE, toks |-> toks]
IntTokens(toks) == [ints |-> TRUE, toks |-> toks]

\* lines 128-135, get_sizes: int(t.strip(',')) summed, a ValueError skipped;
\* an int has no strip, and AttributeError is not caught
get_sizes_raises(tokens) ==
    IF tokens.ints /\ tokens.toks # << >> THEN "AttributeError" ELSE "none"
RECURSIVE SumSizes(_)
SumSizes(toks) ==
    IF toks = << >> THEN 0
    ELSE (IF IsIntLit(StripCommas(Head(toks)))
          THEN DecVal(StripCommas(Head(toks))) ELSE 0) + SumSizes(Tail(toks))
get_sizes(tokens) == IF tokens.ints THEN 0 ELSE SumSizes(tokens.toks)

\* lines 106-126, process_rule(reader), the reader about to yield line i:
\* the lines are read up to the first size: or output: line
RECURSIVE ProcessRule(_, _, _, _)
ProcessRule(lines, i, input_line, files) ==
    IF i > Len(lines)
    THEN [num |-> 0, size |-> 0, pos |-> i, err |-> "UnboundLocalError"]
    ELSE
        LET line == lines[i]
            il == IF LineStartsWith(line, Colon(W_input)) THEN <<line>>
                  ELSE input_line
            tokens == IF LineStartsWith(line, Colon(W_size))
                      THEN StrTokens(Tokens(line))
                      ELSE IntTokens(Existing(Tokens(il[1]), files))
        IN  IF LineStartsWith(line, Colon(W_size))
               \/ (LineStartsWith(line, Colon(W_output)) /\ il # << >>)
            THEN IF get_sizes_raises(tokens) # "none"
                 THEN [num |-> 0, size |-> 0, pos |-> i + 1,
                       err |-> get_sizes_raises(tokens)]
                 ELSE [num |-> Len(tokens.toks), size |-> get_sizes(tokens),
                       pos |-> i + 1, err |-> "none"]
            ELSE IF LineStartsWith(line, Colon(W_output))
            THEN [num |-> 0, size |-> 0, pos |-> i + 1,
                  err |-> "UnboundLocalError"]
            ELSE ProcessRule(lines, i + 1, il, files)
process_rule(lines, i, files) == ProcessRule(lines, i, << >>, files)

\* lines 144-157: the jobs of the listing; a key of a job is << >> while
\* absent, <<tokens>> once set. The listing ends with the first line that is
\* neither indented nor empty, and that line is read off the reader too
NewJob(words) ==
    [name |-> words, inputs |-> << >>, sizes |-> << >>, outputs |-> << >>]
SetKey(job, line) ==
    IF LineStartsWith(line, W_input)
    THEN [job EXCEPT !.inputs = <<StrippedTokens(line)>>]
    ELSE IF LineStartsWith(line, W_size)
    THEN [job EXCEPT !.sizes = <<StrippedTokens(line)>>]
    ELSE [job EXCEPT !.outputs = <<StrippedTokens(line)>>]
RECURSIVE Listing(_, _, _)
Listing(lines, i, jobs) ==
    IF i > Len(lines) THEN [jobs |-> jobs, pos |-> i, err |-> "none"]
    ELSE IF ~lines[i].ind /\ lines[i].words # << >>
    THEN [jobs |-> jobs, pos |-> i + 1, err |-> "none"]
    ELSE IF LineStartsWith(lines[i], W_rule)
    THEN Listing(lines, i + 1, Append(jobs, NewJob(lines[i].words)))
    ELSE IF \/ LineStartsWith(lines[i], W_input)
            \/ LineStartsWith(lines[i], W_size)
            \/ LineStartsWith(lines[i], W_output)
    THEN IF jobs = << >>
         THEN [jobs |-> jobs, pos |-> i + 1, err |-> "IndexError"]
         ELSE Listing(lines, i + 1,
                      [jobs EXCEPT ![Len(jobs)] = SetKey(@, lines[i])])
    ELSE Listing(lines, i + 1, jobs)

\* lines 159-165, in_outputs: "True", "False", or "KeyError" when the search
\* comes to a job without outputs; every job of the listing is searched, the
\* one the infiles belong to as well
RECURSIVE InOutputsOf(_, _, _)
InOutputsOf(infile, jobs, j) ==
    IF j > Len(jobs) THEN "False"
    ELSE IF jobs[j].outputs = << >> THEN "KeyError"
    ELSE IF \E o \in DOMAIN jobs[j].outputs[1] : jobs[j].outputs[1][o] = infile
    THEN "True"
    ELSE InOutputsOf(infile, jobs, j + 1)
RECURSIVE in_outputs(_, _, _)
in_outputs(infiles, jobs, n) ==
    IF n > Len(infiles) THEN "False"
    ELSE IF InOutputsOf(infiles[n], jobs, 1) = "False"
    THEN in_outputs(infiles, jobs, n + 1)
    ELSE InOutputsOf(infiles[n], jobs, 1)

\* lines 167-181: the first job with no input among the outputs; num_inputs
\* is added to before get_sizes is called
JobTokens(job, files) ==
    IF job.sizes # << >> THEN StrTokens(job.sizes[1])
    ELSE IntTokens(Existing(job.inputs[1], files))
RECURSIVE FirstJob(_, _, _)
FirstJob(jobs, j, files) ==
    IF j > Len(jobs)
    THEN [ret |-> << >>, num |-> 0, size |-> 0, err |-> "none"]
    ELSE IF jobs[j].inputs = << >>
    THEN [ret |-> << >>, num |-> 0, size |-> 0, err |-> "KeyError"]
    ELSE IF in_outputs(jobs[j].inputs[1], jobs, 1) = "KeyError"
    THEN [ret |-> << >>, num |-> 0, size |-> 0, err |-> "KeyError"]
    ELSE IF in_outputs(jobs[j].inputs[1], jobs, 1) = "True"
    THEN FirstJob(jobs, j + 1, files)
    ELSE LET tokens == JobTokens(jobs[j], files)
         IN  IF get_sizes_raises(tokens) # "none"
             THEN [ret |-> << >>, num |-> Len(tokens.toks), size |-> 0,
                   err |-> get_sizes_raises(tokens)]
             ELSE [ret |-> <<jobs[j].name>>, num |-> Len(tokens.toks),
                   size |-> get_sizes(tokens), err |-> "none"]

\* lines 137-181, find_first_job(reader), the reader about to yield line i:
\* ret is << >> for None, or <<the stripped rule line>>
JobFindFirstJob(lines, i, files) ==
    LET l == Listing(lines, i, << >>)
        f == FirstJob(l.jobs, 1, files)
    IN  IF l.err # "none"
        THEN [ret |-> << >>, num |-> 0, size |-> 0, pos |-> l.pos, err |-> l.err]
        ELSE [ret |-> f.ret, num |-> f.num, size |-> f.size, pos |-> l.pos,
              err |-> f.err]

\* lines 79-102: the loop of input_stats over the lines of the log; g holds
\* first_job, the sums and the exception so far (acc), and the number of the
\* line the reader yields next (pos)
\* lines 84-86
WithFirstJob(acc, ffj) ==
    [acc |-> [first_job |-> ffj.ret, num |-> acc.num + ffj.num,
              size |-> acc.size + ffj.size, err |-> ffj.err],
     pos |-> ffj.pos]
AfterGroup(lines, i, acc, files) ==
    IF IsGroupJob(lines[i]) /\ acc.first_job = << >>
    THEN WithFirstJob(acc, JobFindFirstJob(lines, i + 1, files))
    ELSE [acc |-> acc, pos |-> i + 1]
\* lines 89-93
AfterFirst(line, g) ==
    IF /\ g.acc.err = "none"
       /\ g.acc.first_job = << >>
       /\ LineStartsWith(line, W_rule) \/ LineStartsWith(line, W_checkpoint)
    THEN [g EXCEPT !.acc.first_job = <<line.words>>]
    ELSE g
\* lines 96-99
WithRule(g, pr) ==
    [acc |-> [g.acc EXCEPT !.num = @ + pr.num, !.size = @ + pr.size,
                           !.err = pr.err],
     pos |-> pr.pos]
AfterRule(lines, line, g, files) ==
    IF g.acc.err = "none" /\ g.acc.first_job = <<line.words>>
    THEN WithRule(g, process_rule(lines, g.pos, files))
    ELSE g
ScanLine(lines, i, acc, files) ==
    AfterRule(lines, lines[i],
              AfterFirst(lines[i], AfterGroup(lines, i, acc, files)), files)
RECURSIVE Scan(_, _, _, _)
ScanOn(lines, g, files) == Scan(lines, g.pos, g.acc, files)
Scan(lines, i, acc, files) ==
    IF acc.err # "none" \/ i > Len(lines) THEN acc
    ELSE ScanOn(lines, ScanLine(lines, i, acc, files), files)

\* Job.input_stats(directory), once the rows are folded
input_stats ==
    /\ err = "none"
    /\ scanned = "no"
    /\ folded = DOMAIN sacct
    /\ scanned' = "input_stats"
    /\ IF filename = None \/ state # COMPLETED
       THEN UNCHANGED <<first_job, num_inputs, input_size, elapsed_seconds, err>>
       ELSE LET s == Scan(log, 1, [first_job |-> << >>, num |-> 0, size |-> 0,
                                   err |-> "none"], fs)
            IN  /\ first_job' = s.first_job
                /\ num_inputs' = RAdd(num_inputs, Num(s.num))
                /\ input_size' = RAdd(input_size, Num(s.size))
                \* line 104: re.match on None raises TypeError
                /\ err' = IF s.err # "none" THEN s.err
                          ELSE IF time = None THEN "TypeError" ELSE "none"
                /\ elapsed_seconds' =
                      IF s.err = "none" /\ time # None
                      THEN _parse_slurm_timedelta(time) ELSE elapsed_seconds
    /\ UNCHANGED <<sacct, entries, folded, state, stepmem, totalmem, time,
                   time_eff, cpu, other_entries, alias, filename, log, block, fs,
                   reader, predVars, storeVars, pureVars, fitVars>>

\* Job.find_first_job(reader), the reader having yielded the group job line
find_first_job ==
    /\ err = "none"
    /\ scanned = "no"
    /\ folded = DOMAIN sacct
    /\ reader <= Len(log) + 1
    /\ reader > 1 /\ IsGroupJob(log[reader - 1])
    /\ scanned' = "find_first_job"
    /\ LET f == JobFindFirstJob(log, reader, fs)
       IN  /\ first_job' = f.ret
           /\ num_inputs' = RAdd(num_inputs, Num(f.num))
           /\ input_size' = RAdd(input_size, Num(f.size))
           /\ reader' = f.pos
           /\ err' = f.err
    /\ UNCHANGED <<sacct, entries, folded, state, stepmem, totalmem, time,
                   time_eff, cpu, other_entries, alias, filename, log, block, fs,
                   elapsed_seconds, predVars, storeVars, pureVars, fitVars>>

-----------------------------------------------------------------------------
(* The accounting rows the model folds: what sacct prints for job 1 *)

Row(id, st, cpus, totalcpu, elapsed, limit, reqmem, maxrss, nodes, ntasks) ==
    [k \in Fields |->
        CASE k = "JobID" -> id
          [] k = "State" -> st
          [] k = "AllocCPUS" -> cpus
          [] k = "TotalCPU" -> totalcpu
          [] k = "Elapsed" -> elapsed
          [] k = "Timelimit" -> limit
          [] k = "REQMEM" -> reqmem
          [] k = "MaxRSS" -> maxrss
          [] k = "NNodes" -> nodes
          [] k = "NTasks" -> ntasks]

CANCELLED_BY == <<"C", "A", "N", "C", "E", "L", "L", "E", "D", " ", "b", "y", " ", "7">>
MasterStates == {PENDING, RUNNING, COMPLETED, CANCELLED_BY}

T_000000   == <<"0", "0", ":", "0", "0", ":", "0", "0">>
T_000140   == <<"0", "0", ":", "0", "1", ":", "4", "0">>
T_001000   == <<"0", "0", ":", "1", "0", ":", "0", "0">>
T_1day     == <<"1", "-", "0", "0", ":", "0", "0", ":", "0", "0">>
T_0130ms   == <<"0", "1", ":", "3", "0", ".", "0", "0", "0">>
T_0001ms   == <<"0", "0", ":", "0", "1", ".", "0", "0", "0">>
T_000007   == <<"0", "0", ":", "0", "0", ":", "0", "7">>
UNLIMITED  == <<"U", "N", "L", "I", "M", "I", "T", "E", "D">>
M_2Gn      == <<"2", "G", "n">>
M_4000Mc   == <<"4", "0", "0", "0", "M", "c">>
Step_batch == <<"1", ".", "b", "a", "t", "c", "h">>
Step_0     == <<"1", ".", "0">>

\* the master row: every field set, only the key fields, a row with a peak
\* memory of its own, and a row whose time limit no pattern matches; and a
\* completed job of 7 seconds that used a third of a second of CPU per core
MasterRows ==
    UNION {
        { Row(jobid, st, <<"2">>, T_0130ms, T_000140, T_001000, M_2Gn, << >>,
              <<"1">>, << >>),
          Row(jobid, st, Missing, Missing, Missing, Missing, Missing, Missing,
              Missing, Missing),
          Row(jobid, st, <<"4">>, T_000000, T_000000, T_1day, M_4000Mc,
              <<"8", "K">>, <<"2">>, Missing),
          Row(jobid, st, <<"2">>, T_0130ms, T_000140, UNLIMITED, M_2Gn, << >>,
              <<"1">>, << >>) } : st \in MasterStates }
    \cup { Row(jobid, COMPLETED, <<"3">>, T_0001ms, T_000007, T_001000, M_2Gn,
              << >>, <<"1">>, << >>) }

\* the step rows: peak memory in K, a fractional peak in M, an empty one, a
\* missing one, and one whose unit letter is unknown
StepRows ==
    { Row(Step_batch, COMPLETED, <<"2">>, T_0130ms, T_000140, << >>, M_2Gn,
          <<"2", "0", "4", "8", "K">>, <<"1">>, <<"1">>),
      Row(Step_0, RUNNING, <<"8">>, T_000000, T_001000, T_001000, M_4000Mc,
          <<"1", ".", "5", "M">>, <<"3">>, <<"4">>),
      Row(Step_0, COMPLETED, <<"2">>, T_0130ms, T_000140, << >>, M_2Gn,
          << >>, <<"1">>, <<"2">>),
      Row(Step_batch, COMPLETED, Missing, Missing, Missing, Missing, Missing,
          Missing, Missing, <<"1">>),
      Row(Step_0, COMPLETED, <<"2">>, T_0130ms, T_000140, << >>, M_2Gn,
          <<"9", "X">>, <<"1">>, <<"1">>) }

MaxSteps == 2

RowSeqs ==
    UNION { { <<m>> \o ss : m \in MasterRows, ss \in [1..n -> StepRows] }
            : n \in 0..MaxSteps }

-----------------------------------------------------------------------------
(* src/slurm_scrub/predictor.py: class Predictor *)

\* A Model is [params, samples, range, failures, mean_eff]; the cache maps the
\* rule names it holds to a mapping from the dimensions fitted to their Model.
\* A call returns [exc, val, msgs]: the exception raised or "none", the value
\* returned, and the advisories printed with click.secho.
Returned(v, msgs) == [exc |-> "none", val |-> v, msgs |-> msgs]
Raised(e, msgs)   == [exc |-> e, val |-> 0, msgs |-> msgs]

\* line 22: bytes to MB
ToMB(filesize) == Rat(filesize, Pow(2, 20))

\* np.polyval(p, x): Horner, highest degree first
RECURSIVE PolyAcc(_, _, _)
PolyAcc(p, x, acc) ==
    IF p = << >> THEN acc ELSE PolyAcc(Tail(p), x, RAdd(RMul(acc, x), Head(p)))
polyval(p, x) == PolyAcc(p, x, Num(0))

\* line 33
TooFewSamplesMutant(fit) == fit["time"].samples <= 10
TooFewSamples(fit) == fit["time"].samples < 10
\* lines 39-40
OutOfRangeMutant(fit, mb) ==
    \/ RLe(mb, RDiv(fit["time"].range[1], Num(2)))
    \/ RLe(RMul(fit["time"].range[2], Rat(3, 2)), mb)
OutOfRange(fit, mb) ==
    \/ RLt(mb, RDiv(fit["time"].range[1], Num(2)))
    \/ RLt(RMul(fit["time"].range[2], Rat(3, 2)), mb)
\* lines 49-52
ResourceKey(resource) == IF resource = "short_jobs" THEN "time" ELSE resource
\* line 68
Fitted(model, mb) == RoundHalfEven(polyval(model.params, mb))
\* line 71
EscalateMutant(result, attempt) == result
Escalate(result, attempt) == result * attempt
\* lines 74-75
ClampMutant(k, result) ==
    IF k = "time" /\ result >= 45 /\ result < 62 THEN 62 ELSE result
Clamp(k, result) ==
    IF k = "time" /\ result > 45 /\ result < 62 THEN 62 ELSE result
\* lines 77-80
FinishMutant(resource, result) ==
    IF resource = "short_jobs" THEN (IF result <= 62 THEN 1 ELSE 0) ELSE result
Finish(resource, result) ==
    IF resource = "short_jobs" THEN (IF result <= 61 THEN 1 ELSE 0) ELSE result

\* lines 60-67: the advisories about the quality of the fit
QualityMsgs(model) ==
    (IF RLt(model.mean_eff, Num(50)) THEN {"low efficiency"} ELSE {})
    \cup (IF RLt(Rat(1, 20), Rat(model.failures, model.samples))
          THEN {"training failures"} ELSE {})

\* lines 27-80: estimate once the cache is up to date
Gates(f, r) ==
    IF r.rulename \notin DOMAIN f
    THEN Returned(r.default * r.attempt, {"not found"})
    ELSE
    LET fit == f[r.rulename]
        mb  == ToMB(r.filesize)
        k   == ResourceKey(r.resource)
    IN  IF "time" \notin DOMAIN fit THEN Raised("KeyError", {})
        ELSE IF TooFewSamples(fit)
            THEN Returned(r.default * r.attempt, {"samples"})
        ELSE IF OutOfRange(fit, mb)
            THEN Returned(r.default * r.attempt, {"range"})
        ELSE IF k \notin DOMAIN fit
            THEN Returned(Finish(r.resource,
                                 Clamp(k, Escalate(r.default, r.attempt))),
                          {"no estimate"})
        ELSE IF fit[k].samples = 0
            THEN Raised("ZeroDivisionError",
                        IF RLt(fit[k].mean_eff, Num(50))
                        THEN {"low efficiency"} ELSE {})
        ELSE Returned(Finish(r.resource,
                             Clamp(k, Escalate(Fitted(fit[k], mb), r.attempt))),
                      QualityMsgs(fit[k]))

\* lines 82-83
need_update_mutant == FALSE
need_update == modified_time # file_mtime

\* the call's result with the advisories printed before the gates
WithMsgs(r, msgs) == [r EXCEPT !.msgs = @ \cup msgs]
NoCall == Returned(0, {})
NoRequest == [rulename |-> "", filesize |-> 0, resource |-> "", default |-> 0,
              attempt |-> 1]

\* lines 12-19, load_fits: first the mtime, then the content; json.load raises
\* on a truncated or half-written file and leaves self.fits as it was
LoadRaises == ~file_whole
LoadedFitsMutant == fits
LoadedFits == IF file_whole THEN file_fits ELSE fits

\* Predictor.estimate run without interruption (a single caller, no writer
\* at work during the call)
estimate(r) ==
    /\ pc = "idle"
    /\ wpc = "idle"
    /\ req' = r
    /\ call_changed' = (file_mtime # modified_time)
    /\ call_fits' = fits
    /\ IF need_update
       THEN /\ modified_time' = file_mtime
            /\ fits' = LoadedFits
            /\ call_read' = IF LoadRaises THEN << >> ELSE <<file_fits>>
            /\ ret' = IF LoadRaises THEN Raised("JSONDecodeError", {"update"})
                      ELSE WithMsgs(Gates(LoadedFits, r), {"update"})
            /\ pc' = IF LoadRaises THEN "raised" ELSE "done"
       ELSE /\ UNCHANGED <<modified_time, fits>>
            /\ call_read' = << >>
            /\ ret' = Gates(fits, r)
            /\ pc' = "done"
    /\ UNCHANGED <<file_fits, file_whole, file_mtime, clock, wpc, nonPredVars>>

\* the same call, one access to shared state at a time
\* lines 21-24: the call starts and asks need_update
estimate_begin(r) ==
    /\ pc = "idle"
    /\ req' = r
    /\ call_changed' = (file_mtime # modified_time)
    /\ call_fits' = fits
    /\ call_read' = << >>
    /\ ret' = Returned(0, IF need_update THEN {"update"} ELSE {})
    /\ pc' = IF need_update THEN "load_mtime" ELSE "gates"
    /\ UNCHANGED <<file_fits, file_whole, file_mtime, clock, fits, modified_time,
                   wpc, nonPredVars>>
\* line 13
load_mtime ==
    /\ pc = "load_mtime"
    /\ modified_time' = file_mtime
    /\ pc' = "load_read"
    /\ UNCHANGED <<file_fits, file_whole, file_mtime, clock, fits, req, ret,
                   call_changed, call_fits, call_read, wpc, nonPredVars>>
\* lines 14-19
load_read ==
    /\ pc = "load_read"
    /\ fits' = LoadedFits
    /\ call_read' = IF LoadRaises THEN << >> ELSE <<file_fits>>
    /\ ret' = IF LoadRaises THEN Raised("JSONDecodeError", ret.msgs) ELSE ret
    /\ pc' = IF LoadRaises THEN "raised" ELSE "gates"
    /\ UNCHANGED <<file_fits, file_whole, file_mtime, clock, modified_time, req,
                   call_changed, call_fits, wpc, nonPredVars>>
\* lines 27-80
estimate_gates ==
    /\ pc = "gates"
    /\ ret' = WithMsgs(Gates(fits, req), ret.msgs)
    /\ pc' = "done"
    /\ UNCHANGED <<file_fits, file_whole, file_mtime, clock, fits, modified_time,
                   req, call_changed, call_fits, call_read, wpc, nonPredVars>>

\* the caller takes the value returned, or catches the exception
estimate_end ==
    /\ pc \in {"done", "raised"}
    /\ pc' = "idle"
    /\ req' = NoRequest
    /\ ret' = NoCall
    /\ call_changed' = FALSE
    /\ call_fits' = fits
    /\ call_read' = << >>
    /\ UNCHANGED <<file_fits, file_whole, file_mtime, clock, fits, modified_time,
                   wpc, nonPredVars>>

-----------------------------------------------------------------------------
(* The writer of the cache file: slurm-scrub predict --output (src/slurm_scrub/cli.py) *)

MaxClock == 2

\* the file-system clock moves on
Tick ==
    /\ clock < MaxClock
    /\ clock' = clock + 1
    /\ UNCHANGED <<file_fits, file_whole, file_mtime, fits, modified_time, pc, req,
                   ret, call_changed, call_fits, call_read, wpc, nonPredVars>>

\* the output file is opened for writing: truncated, then filled by json.dump
WriteOpen(c) ==
    /\ wpc = "idle"
    /\ wpc' = "writing"
    /\ file_fits' = c
    /\ file_whole' = FALSE
    /\ file_mtime' = clock
    /\ UNCHANGED <<clock, fits, modified_time, pc, req, ret, call_changed,
                   call_fits, call_read, nonPredVars>>
\* the last of the text is written out and the file closed
WriteClose ==
    /\ wpc = "writing"
    /\ wpc' = "idle"
    /\ file_whole' = TRUE
    /\ file_mtime' = clock
    /\ UNCHANGED <<file_fits, clock, fits, modified_time, pc, req, ret,
                   call_changed, call_fits, call_read, nonPredVars>>
\* a whole run of the writer, at a later time, between two calls of estimate
Persist(c) ==
    /\ wpc = "idle"
    /\ pc = "idle"
    /\ clock < MaxClock
    /\ clock' = clock + 1
    /\ file_fits' = c
    /\ file_whole' = TRUE
    /\ file_mtime' = clock + 1
    /\ UNCHANGED <<fits, modified_time, pc, req, ret, call_changed,
                   call_fits, call_read, wpc, nonPredVars>>

-----------------------------------------------------------------------------
(* The caches and requests of the model *)

Model(params, samples, lo, hi, failures, eff) ==
    [params |-> params, samples |-> samples, range |-> <<Num(lo), Num(hi)>>,
     failures |-> failures, mean_eff |-> Num(eff)]

\* minutes = MB, fitted on sizes 20..48 MB
TimeLin   == Model(<<Num(1), Num(0)>>, 12, 20, 48, 0, 80)
\* the same fit from 9 samples only
TimeYoung == Model(<<Num(1), Num(0)>>, 9, 20, 48, 0, 80)
\* minutes = MB^2/4 + 30, fitted on sizes 2..6 MB from exactly 10 samples
TimeQuad  == Model(<<Rat(1, 4), Num(0), Num(30)>>, 10, 2, 6, 0, 90)
\* MB of memory = 2 MB + 100, a poor fit
MemLin    == Model(<<Num(2), Num(100)>>, 12, 20, 48, 1, 40)
\* a Model fitted on nothing
MemEmpty  == Model(<<Num(1)>>, 0, 0, 0, 0, 0)

Caches ==
    { ("a" :> [time |-> TimeLin, mem |-> MemLin])
        @@ ("b" :> [time |-> TimeYoung, mem |-> MemLin]),
      ("a" :> ("time" :> TimeLin))
        @@ ("b" :> [time |-> TimeQuad, mem |-> MemEmpty]),
      ("b" :> [time |-> TimeQuad, mem |-> MemLin]),
      ("a" :> ("mem" :> MemLin))
        @@ ("b" :> [time |-> TimeLin, mem |-> MemLin]) }

MaxAttempt == 3

\* input sizes in quarters of a MB: around the edges of both ranges
\* (1 and 9 MB, 10 and 72 MB), and where the fits give 40..70 minutes
QuarterMBs == {0, 3, 4, 8, 16, 32, 36, 37, 39, 40, 90, 92, 94, 124, 160, 180,
               184, 200, 244, 248, 280, 288, 289}
RuleNames == {"a", "b", "zz"}
Resources == {"time", "mem", "short_jobs"}
Defaults  == {7, 1000}

Requests ==
    [rulename : RuleNames, filesize : {q * Pow(2, 18) : q \in QuarterMBs},
     resource : Resources, default : Defaults, attempt : 1..MaxAttempt]

\* the calls made while a writer is at work
RacingRequests ==
    { r \in Requests : /\ r.rulename \in {"a", "b"}
                       /\ r.filesize = 200 * Pow(2, 18)
                       /\ r.resource \in {"time", "mem"}
                       /\ r.default = 7
                       /\ r.attempt = 1 }

-----------------------------------------------------------------------------
(* The logs the model scans: what snakemake writes for a job of some steps *)

Step(nm, inputs, sizes, outputs) ==
    [name |-> nm, inputs |-> inputs, sizes |-> sizes, outputs |-> outputs]

\* 'x, y': every token but the last carries a comma
WithCommas(toks) ==
    [i \in DOMAIN toks |-> IF i < Len(toks) THEN toks[i] \o <<",">> ELSE toks[i]]
KeyLine(w, opt) ==
    IF opt = << >> THEN << >>
    ELSE <<Line(TRUE, <<Colon(w)>> \o WithCommas(opt[1]))>>
\* the lines of one step: 'rule A:', then its indented input, size and output
\* lines as far as it has them, then an empty line
StepLines(ind, st) ==
    <<Line(ind, <<W_rule, st.name>>)>> \o KeyLine(W_input, st.inputs)
        \o KeyLine(W_size, st.sizes) \o KeyLine(W_output, st.outputs)
        \o <<Line(FALSE, << >>)>>
GroupLine == Line(FALSE, <<W_group, W_job, <<"7">>>>)
DateLine  == Line(FALSE, <<<<"[", "d", "a", "t", "e", "]">>>>)

RECURSIVE ListingLines(_)
ListingLines(b) ==
    IF b = << >> THEN << >> ELSE StepLines(TRUE, Head(b)) \o ListingLines(Tail(b))
RECURSIVE ExecLines(_)
ExecLines(b) ==
    IF b = << >> THEN << >>
    ELSE <<DateLine>> \o StepLines(FALSE, Head(b)) \o ExecLines(Tail(b))
\* the log of a job running the steps b: for a group job the listing of its
\* steps first, then every step as it is run
LogOf(b, grouped) ==
    (IF grouped THEN <<GroupLine, Line(FALSE, << >>)>> \o ListingLines(b)
     ELSE << >>) \o ExecLines(b)

F_a == <<"a">>
F_b == <<"b">>
F_c == <<"c">>
F_d == <<"d">>
F_f == <<"f">>
F_w == <<"w">>
F_x == <<"x">>
F_y == <<"y">>
F_z == <<"z">>

\* two steps that read files from outside the job and list their sizes (one
\* size unknown), one that does so without sizes, two that read what another
\* step writes, and one with no input at all
LogSteps ==
    { Step(<<"A", ":">>, <<<<F_x, F_y>>>>, <<<<<<"1", "0">>, <<"2", "0">>>>>>,
           <<<<F_a>>>>),
      Step(<<"B", ":">>, <<<<F_a>>>>, <<<<<<"5">>>>>>, <<<<F_b>>>>),
      Step(<<"C", ":">>, <<<<F_x, F_w>>>>, << >>, <<<<F_c>>>>),
      Step(<<"D", ":">>, <<<<F_b>>>>, << >>, <<<<F_d>>>>),
      Step(<<"E", ":">>, << >>, << >>, <<<<F_x>>>>),
      Step(<<"F", ":">>, <<<<F_z, F_w>>>>, <<<<<<"7">>, <<"n", "/", "a">>>>>>,
           <<<<F_f>>>>) }

MaxListed == 2

Blocks ==
    UNION { { b \in [1..n -> LogSteps] : \A i, j \in 1..n : b[i] = b[j] => i = j }
            : n \in 1..MaxListed }

\* the files on disk: none of them, or the inputs with their sizes
Disks ==
    { [f \in {} |-> 0],
      [f \in {F_x, F_y, F_a, F_b} |->
          CASE f = F_x -> 10 [] f = F_y -> 20 [] f = F_a -> 5 [] f = F_b -> 1] }

LogName == <<"l", "o", "g">>

\* the fields Job.update looks for with 'X' in entry
OptionalFields ==
    {"Elapsed", "Timelimit", "TotalCPU", "AllocCPUS", "REQMEM", "NNodes", "MaxRSS"}
FullMaster(st) ==
    Row(jobid, st, <<"2">>, T_0130ms, T_000140, T_001000, M_2Gn, << >>, <<"1">>,
        << >>)

\* the master rows of the scanned jobs: completed with every field set,
\* still running, completed with the key fields only, and completed with
\* one of the optional fields left out
LogMasters ==
    { FullMaster(COMPLETED), FullMaster(RUNNING),
      Row(jobid, COMPLETED, Missing, Missing, Missing, Missing, Missing, Missing,
          Missing, Missing) }
    \cup { [FullMaster(COMPLETED) EXCEPT ![k] = Missing] : k \in OptionalFields }

-----------------------------------------------------------------------------
(* src/slurm_scrub/cli.py: record *)

\* a row of the store: its key (name, id) and the rest of its columns
StoreRow(key, val) == [key |-> key, val |-> val]
KeysOf(rows) == { rows[i].key : i \in DOMAIN rows }

\* line 39: old_data.loc[~old_data.index.duplicated(keep='first')]
RECURSIVE DropDuplicated(_)
DropDuplicated(rows) ==
    IF rows = << >> THEN << >>
    ELSE LET front == DropDuplicated(SubSeq(rows, 1, Len(rows) - 1))
             last  == rows[Len(rows)]
         IN  IF last.key \in KeysOf(front) THEN front ELSE Append(front, last)

\* old_data[~old_data.index.isin(job_data.index)]
RECURSIVE NotIn(_, _)
NotIn(rows, keys) ==
    IF rows = << >> THEN << >>
    ELSE (IF Head(rows).key \in keys THEN << >> ELSE <<Head(rows)>>)
         \o NotIn(Tail(rows), keys)

\* lines 35-43: what record writes to the store
MergedMutant(old, new) == DropDuplicated(old) \o new
Merged(old, new) == NotIn(DropDuplicated(old), KeysOf(new)) \o new

\* the first row of rows with the key k, as <<row>>; << >> when there is none
RECURSIVE FirstWith(_, _)
FirstWith(rows, k) ==
    IF rows = << >> THEN << >>
    ELSE IF Head(rows).key = k THEN <<Head(rows)>>
    ELSE FirstWith(Tail(rows), k)

StoreKeys == {"k1", "k2"}
StoreVals == {"v1", "v2"}
MaxBatch  == 2
Batches ==
    UNION { [1..n -> { StoreRow(k, v) : k \in StoreKeys, v \in StoreVals }]
            : n \in 0..MaxBatch }

\* slurm-scrub record: the rows scrubbed are merged into the store
record(new) ==
    /\ job_data' = new
    /\ old_db' = db
    /\ db' = Merged(db, new)
    /\ first_seen' = [k \in StoreKeys |->
                         IF first_seen[k] = << >> THEN FirstWith(new, k)
                         ELSE first_seen[k]]
    /\ UNCHANGED <<jobVars, logVars, predVars, pureVars, fitVars>>

-----------------------------------------------------------------------------
(* Calls of the parsers of src/job.py on their own *)

NotCalled == <<"NotCalled">>

\* str(n) and '%02d' % n, for n >= 0
DigitOf(n) ==
    CASE n = 0 -> "0" [] n = 1 -> "1" [] n = 2 -> "2" [] n = 3 -> "3"
      [] n = 4 -> "4" [] n = 5 -> "5" [] n = 6 -> "6" [] n = 7 -> "7"
      [] n = 8 -> "8" [] n = 9 -> "9"
RECURSIVE DecStr(_)
DecStr(n) == IF n < 10 THEN <<DigitOf(n)>> ELSE Append(DecStr(n \div 10), DigitOf(n % 10))
Pad2(n) == IF n < 10 THEN <<"0">> \o DecStr(n) ELSE DecStr(n)

\* s seconds as slurm prints a duration: D-HH:MM:SS, HH:MM:SS and MM:SS.mmm
FmtDHMS(s) ==
    DecStr(s \div 86400) \o <<"-">> \o Pad2((s % 86400) \div 3600) \o <<":">>
        \o Pad2((s % 3600) \div 60) \o <<":">> \o Pad2(s % 60)
FmtHMS(s) ==
    Pad2(s \div 3600) \o <<":">> \o Pad2((s % 3600) \div 60) \o <<":">>
        \o Pad2(s % 60)
FmtMSm(s) ==
    Pad2(s \div 60) \o <<":">> \o Pad2(s % 60) \o <<".", "0", "0", "0">>
Format(f, s) ==
    CASE f = "D-HH:MM:SS" -> FmtDHMS(s)
      [] f = "HH:MM:SS" -> FmtHMS(s)
      [] f = "MM:SS.mmm" -> FmtMSm(s)
Formats == {"D-HH:MM:SS", "HH:MM:SS", "MM:SS.mmm"}

\* durations below ten days: every number of days, with hours, minutes and
\* seconds at and between the ends of their ranges
TenDays == 10 * 86400
SampleSeconds ==
    { d * 86400 + h * 3600 + m * 60 + c :
        d \in 0..9, h \in {0, 1, 10, 23}, m \in {0, 1, 59}, c \in {0, 59} }
\* strings that are no duration
NoDurations ==
    { << >>, UNLIMITED, Dashes, <<"1", "2", ":", "3", "4">>, <<"1", "2", "3", "4", "5">>,
      <<"1", ":", "0", "0", ":", "0", "0">> }

\* strings that are no duration as a whole and start like one: text after
\* the seconds, and any character where MM:SS.mmm has its dot
PrefixDurations ==
    { [delta |-> <<"0", "0", ":", "0", "1", ":", "4", "0", "x">>, secs |-> 100],
      [delta |-> <<"1", "2", ":", "3", "4", ":", "5", "6", "7">>, secs |-> 45296],
      [delta |-> <<"1", "2", ":", "3", "4", "x", "5", "6", "7">>, secs |-> 754] }

TimedeltaArgs ==
    { [fn |-> "timedelta", fmt |-> f, secs |-> s, delta |-> Format(f, s)] :
        f \in Formats, s \in SampleSeconds }
    \cup { [fn |-> "timedelta", fmt |-> "none", secs |-> 0, delta |-> d] :
             d \in NoDurations }
    \cup { [fn |-> "timedelta", fmt |-> "prefix", secs |-> p.secs, delta |-> p.delta] :
             p \in PrefixDurations }

Magnitudes == { <<"2">>, <<"2", ".", "5">>, <<"4", "0", "0", "0">>, <<"0">> }
Bases == {"n", "c", "x"}
MemArgs ==
    { [fn |-> "parsemem", mag |-> m, unit |-> u, basis |-> b,
       mem |-> m \o <<u, b>>, nodes |-> n, cpus |-> c] :
        m \in Magnitudes, u \in Units, b \in Bases, n \in {1, 3, 4}, c \in {1, 4, 8} }

\* _parse_slurm_timedelta(delta)
call_parse_slurm_timedelta ==
    /\ arg.fn = "timedelta"
    /\ out = NotCalled
    /\ out' = _parse_slurm_timedelta(arg.delta)
    /\ UNCHANGED <<arg, jobVars, logVars, predVars, storeVars, fitVars>>
\* parsemem(mem, nodes, cpus)
call_parsemem ==
    /\ arg.fn = "parsemem"
    /\ out = NotCalled
    /\ out' = IF parsemem_raises(arg.mem) # "none" THEN <<parsemem_raises(arg.mem)>>
              ELSE parsemem(arg.mem, Num(arg.nodes), Num(arg.cpus))
    /\ UNCHANGED <<arg, jobVars, logVars, predVars, storeVars, fitVars>>

-----------------------------------------------------------------------------
(* src/slurm_scrub/estimator.py: class Estimator *)

RSub(a, b) == RAdd(a, <<-b[1], b[2]>>)

\* np.ceil(np.log2(r)) for r > 1: the least k with 2^k >= r
RECURSIVE CeilLog2From(_, _)
CeilLog2From(r, k) ==
    IF RLe(r, Num(Pow(2, k))) THEN k ELSE CeilLog2From(r, k + 1)
\* one doubling too many
CeilLog2Mutant(r) == CeilLog2From(r, 0) + 1
CeilLog2(r) == CeilLog2From(r, 0)

\* lines 14-15: the estimate, raised to 1 when below
Clamped(p, x) ==
    LET val == polyval(p, x) IN IF RLt(val, Num(1)) THEN Num(1) ELSE val
\* lines 16-19 on one sample; np.where takes fac + y/(2**fac*val) where
\* val < y and y/val elsewhere, whatever the log2 of the other branch gave
CostAt(t, p, x, y) ==
    LET val == Clamped(p, x)
    IN  IF RLt(val, y)
        THEN LET fac == CeilLog2(RDiv(y, val))
             IN  RSub(RAdd(Num(fac), RDiv(y, RMul(Num(Pow(2, fac)), val))), t)
        ELSE RSub(RDiv(y, val), t)
\* lines 13-19, cost(p, x, y): the residual of every sample
cost(t, p, x, y) == [i \in DOMAIN x |-> CostAt(t, p, x[i], y[i])]

\* the cost of a solve: 0.5 * sum(f**2) of the residuals at its solution
RECURSIVE SumSq(_)
SumSq(f) ==
    IF f = << >> THEN Num(0) ELSE RAdd(RMul(Head(f), Head(f)), SumSq(Tail(f)))
HalfSumSq(f) == RMul(Rat(1, 2), SumSq(f))

\* lines 30-31: np.zeros(deg) with init[-1] = 1
StartVector(n) == [i \in 1..n |-> IF i = n THEN Num(1) ELSE Num(0)]
\* line 29: range(min_deg, 10)
Ceiling == 10

\* least_squares(self.cost, init, args=(xvars, yvars)): the solver ends at
\* some vector of the length of init, and reports it with its cost; which
\* vector is the solver's affair: the start itself, the constant 4 or, with
\* two coefficients or more, the line 2*x
Constant(n, c) == [i \in 1..n |-> IF i = n THEN Num(c) ELSE Num(0)]
Slope(n, a) == [i \in 1..n |-> IF i = n - 1 THEN Num(a) ELSE Num(0)]
Solutions(init) ==
    LET n == Len(init)
    IN  {init, Constant(n, 4)} \cup (IF n >= 2 THEN {Slope(n, 2)} ELSE {})
least_squares(t, init, x, xvars, yvars) ==
    [init |-> init, x |-> x, cost |-> HalfSumSq(cost(t, x, xvars, yvars))]

\* line 33
ReplacesBestMutant(b, params) == b = << >> \/ RLe(params.cost, b[1].cost)
ReplacesBest(b, params) == b = << >> \/ RLt(params.cost, b[1].cost)

\* lines 36-47: the dict fit returns for the best solve
RECURSIVE CountTrue(_)
CountTrue(bs) ==
    IF bs = << >> THEN 0 ELSE (IF Head(bs) THEN 1 ELSE 0) + CountTrue(Tail(bs))
RECURSIVE Sum(_)
Sum(s) == IF s = << >> THEN Num(0) ELSE RAdd(Head(s), Sum(Tail(s)))
SeqMin(s) == CHOOSE a \in { s[i] : i \in DOMAIN s } :
                 \A i \in DOMAIN s : RLe(a, s[i])
SeqMax(s) == CHOOSE a \in { s[i] : i \in DOMAIN s } :
                 \A i \in DOMAIN s : RLe(s[i], a)
FitResult(bx, xvars, yvars) ==
    LET ests == [i \in DOMAIN xvars |-> polyval(bx, xvars[i])]
        eff  == [i \in DOMAIN xvars |->
                   IF RLt(Num(1), RDiv(yvars[i], ests[i]))
                   THEN RDiv(yvars[i], RMul(Num(3), ests[i]))
                   ELSE RDiv(yvars[i], ests[i])]
    IN  [params   |-> bx,
         samples  |-> Len(xvars),
         range    |-> <<SeqMin(xvars), SeqMax(xvars)>>,
         failures |-> CountTrue([i \in DOMAIN xvars |-> RLt(ests[i], yvars[i])]),
         mean_eff |-> RMul(RDiv(Sum(eff), Num(Len(xvars))), Num(100))]

\* lines 29-34, one turn of the loop of fit: np.zeros(0)[-1] raises
\* IndexError; otherwise the solve is run and kept when it is the first or
\* its cost is below the best so far
fit_solve ==
    /\ fit_call.fn = "fit"
    /\ fit_ret = NotCalled
    /\ deg < Ceiling
    /\ IF deg = 0
       THEN /\ fit_ret' = <<"IndexError">>
            /\ UNCHANGED <<deg, best, solves>>
       ELSE \E x \in Solutions(StartVector(deg)) :
            \E params \in {least_squares(fit_call.target_eff, StartVector(deg),
                                          x, fit_call.xvars, fit_call.yvars)} :
              /\ solves' = Append(solves, params)
              /\ best' = IF ReplacesBest(best, params) THEN <<params>> ELSE best
              /\ deg' = deg + 1
              /\ fit_ret' = fit_ret
    /\ UNCHANGED <<fit_call, jobVars, logVars, predVars, storeVars, pureVars>>

\* lines 36-47, after the loop: best.x of None raises AttributeError
fit_return ==
    /\ fit_call.fn = "fit"
    /\ fit_ret = NotCalled
    /\ deg >= Ceiling
    /\ fit_ret' = IF best = << >> THEN <<"AttributeError">>
                  ELSE <<"dict", FitResult(best[1].x, fit_call.xvars, fit_call.yvars)>>
    /\ UNCHANGED <<fit_call, deg, best, solves, jobVars, logVars, predVars,
                   storeVars, pureVars>>

\* the fits asked for: two samples of sizes 1 and 2, value = 2 * size and a
\* small value after a large one; min_deg as cli.py passes it (1 and 2), near
\* the end of the range, past it, and 0
TargetEffs == {Rat(4, 5), Rat(1, 2)}
FitSamples ==
    { [xvars |-> <<Num(1), Num(2)>>, yvars |-> <<Num(2), Num(4)>>],
      [xvars |-> <<Num(1), Num(2)>>, yvars |-> <<Num(3), Num(1)>>] }
MinDegs == {0, 1, 2, 8, 10}
FitCalls ==
    { [fn |-> "fit", target_eff |-> Rat(4, 5), xvars |-> d.xvars,
       yvars |-> d.yvars, min_deg |-> m] : d \in FitSamples, m \in MinDegs }

\* the calls of cost: polynomials below 1, at 1 and above, values on both
\* sides of the estimate, one and several doublings away
CostPolys ==
    { <<Num(0)>>, <<Num(1)>>, <<Num(4)>>, <<Num(2), Num(0)>>, <<Num(-1), Num(0)>>,
      <<Rat(1, 2), Num(1)>> }
CostSizes == {Num(0), Num(1), Num(3)}
CostValues ==
    {Num(-1), Num(0), Rat(1, 2), Num(1), Num(2), Num(3), Num(8), Num(9)}
CostArgs ==
    { [fn |-> "cost", target_eff |-> t, p |-> p, x |-> <<x1, x2>>, y |-> <<y1, y2>>] :
        t \in TargetEffs, p \in CostPolys, x1 \in CostSizes, x2 \in CostSizes,
        y1 \in CostValues, y2 \in CostValues }

\* Estimator.cost(p, x, y) on its own
call_cost ==
    /\ arg.fn = "cost"
    /\ out = NotCalled
    /\ out' = cost(arg.target_eff, arg.p, arg.x, arg.y)
    /\ UNCHANGED <<arg, jobVars, logVars, predVars, storeVars, fitVars>>

-----------------------------------------------------------------------------
(* Specifications *)

\* no Predictor at work
PredictorQuiet ==
    /\ file_fits = [x \in {} |-> 0]
    /\ file_whole = TRUE
    /\ file_mtime = 0
    /\ clock = 0
    /\ fits = [x \in {} |-> 0]
    /\ modified_time = 0
    /\ pc = "idle"
    /\ req = NoRequest
    /\ ret = NoCall
    /\ call_changed = FALSE
    /\ call_fits = fits
    /\ call_read = << >>
    /\ wpc = "idle"

\* no log to scan
LogQuiet ==
    /\ filename = None
    /\ log = << >>
    /\ block = << >>
    /\ fs = [f \in {} |-> 0]
    /\ reader = 1
    /\ first_job = << >>
    /\ scanned = "no"

\* no Job at work
JobQuiet ==
    /\ sacct = << >>
    /\ entries = << >>
    /\ folded = {}
    /\ JobInit
    /\ LogQuiet

\* no store, and no parser called
StoreInit ==
    /\ db = << >>
    /\ old_db = << >>
    /\ job_data = << >>
    /\ first_seen = [k \in StoreKeys |-> << >>]
PureQuiet ==
    /\ arg = [fn |-> "none"]
    /\ out = NotCalled
\* no fit under way
FitQuiet ==
    /\ fit_call = [fn |-> "none"]
    /\ deg = 0
    /\ best = << >>
    /\ solves = << >>
    /\ fit_ret = NotCalled

\* the Job: a fresh Job(job, '1', filename) and the rows of job 1, folded one
\* by one in any order
Init ==
    /\ sacct \in RowSeqs
    /\ entries = sacct
    /\ folded = {}
    /\ JobInit
    /\ LogQuiet
    /\ PredictorQuiet
    /\ StoreInit
    /\ PureQuiet
    /\ FitQuiet
Next == \E i \in 1..(MaxSteps + 1) : update(i)
Spec == Init /\ [][Next]_vars

\* Predictor.__init__ on a cache file written out some time ago
PredictorInit ==
    /\ file_fits \in Caches
    /\ file_whole = TRUE
    /\ file_mtime = 0
    /\ clock = 0
    /\ fits = file_fits
    /\ modified_time = file_mtime
    /\ pc = "idle"
    /\ req = NoRequest
    /\ ret = NoCall
    /\ call_changed = FALSE
    /\ call_fits = fits
    /\ call_read = << >>
    /\ wpc = "idle"

\* the Predictor with one caller; the cache file is rewritten between calls
InitPredictor == JobQuiet /\ PredictorInit /\ StoreInit /\ PureQuiet /\ FitQuiet
NextPredictor ==
    \/ \E r \in Requests : estimate(r)
    \/ estimate_end
    \/ \E c \in Caches : Persist(c)
SpecPredictor == InitPredictor /\ [][NextPredictor]_vars

\* the Predictor and a writer of the cache file running side by side
InitCache == JobQuiet /\ PredictorInit /\ StoreInit /\ PureQuiet /\ FitQuiet
NextCache ==
    \/ \E r \in RacingRequests : estimate_begin(r)
    \/ load_mtime
    \/ load_read
    \/ estimate_gates
    \/ estimate_end
    \/ \E c \in Caches : WriteOpen(c)
    \/ WriteClose
    \/ Tick
SpecCache == InitCache /\ [][NextCache]_vars

\* a Job with its master row and its log: the row is folded, then the log is
\* scanned, by input_stats or by find_first_job on its own
InitLog ==
    /\ sacct \in { <<m>> : m \in LogMasters }
    /\ entries = sacct
    /\ folded = {}
    /\ JobInit
    /\ filename \in {None, LogName}
    /\ block \in Blocks
    /\ log \in { LogOf(block, g) : g \in BOOLEAN }
    /\ fs \in Disks
    /\ reader = IF IsGroupJob(log[1]) THEN 2 ELSE 1
    /\ first_job = << >>
    /\ scanned = "no"
    /\ PredictorQuiet
    /\ StoreInit
    /\ PureQuiet
    /\ FitQuiet
NextLog ==
    \/ update(1)
    \/ input_stats
    \/ find_first_job
SpecLog == InitLog /\ [][NextLog]_vars

\* the store, merged into by one record after another
InitStore == JobQuiet /\ PredictorQuiet /\ StoreInit /\ PureQuiet /\ FitQuiet
NextStore == \E new \in Batches : record(new)
SpecStore == InitStore /\ [][NextStore]_vars

\* one call of a parser on one argument
InitPure ==
    /\ JobQuiet
    /\ PredictorQuiet
    /\ StoreInit
    /\ arg \in TimedeltaArgs \cup MemArgs \cup CostArgs
    /\ out = NotCalled
    /\ FitQuiet
NextPure ==
    \/ call_parse_slurm_timedelta
    \/ call_parsemem
    \/ call_cost
SpecPure == InitPure /\ [][NextPure]_vars

\* one call of Estimator().fit: best = None is set, the loop is about to start
InitFit ==
    /\ JobQuiet
    /\ PredictorQuiet
    /\ StoreInit
    /\ PureQuiet
    /\ fit_call \in FitCalls
    /\ deg = fit_call.min_deg
    /\ best = << >>
    /\ solves = << >>
    /\ fit_ret = NotCalled
NextFit ==
    \/ fit_solve
    \/ fit_return
SpecFit == InitFit /\ [][NextFit]_vars

-----------------------------------------------------------------------------
(* Job.update: the claims, checked under Spec *)

MasterFolded  == 1 \in folded
MasterState   == FirstToken(sacct[1]["State"])
AllFolded     == folded = DOMAIN sacct /\ err = "none"
Populated(k)  == Has(sacct[1], k) /\ sacct[1][k] # << >>
K2048         == <<"2", "0", "4", "8", "K">>

AtConstructorValues ==
    /\ stepmem = Num(0)
    /\ totalmem = None
    /\ time = Dashes
    /\ time_eff = Dashes
    /\ cpu = Dashes
    /\ other_entries = EmptyDict

\* C1: a PENDING master record folded alone into a fresh Job leaves state =
\* PENDING and stepmem, totalmem, time, time_eff, cpu and other_entries at
\* their constructor values; and while the state is PENDING no update of a
\* further record changes any field of the Job.
C1_PendingAccumulatesNothing ==
    /\ [](folded = {1} /\ MasterState = PENDING
            => state = PENDING /\ AtConstructorValues)
    /\ [][state = PENDING =>
            UNCHANGED <<state, stepmem, totalmem, time, time_eff, cpu,
                        other_entries, alias, entries>>]_vars

\* C1 witness: a PENDING master and two steps with a peak memory of 2048K, all
\* folded, the steps after the master (none of their memory was added).
C1_Witness ==
    /\ Len(sacct) = 3
    /\ AllFolded
    /\ state = PENDING
    /\ \A i \in 2..3 : sacct[i]["MaxRSS"] = K2048
    /\ AtConstructorValues

\* C2 (as claimed): once the RUNNING master is folded, in whatever order the
\* rows came, stepmem is 0 and other_entries is the master row as read, with
\* no field back-filled from a step.
C2_RunningNeverAccumulates ==
    MasterFolded /\ MasterState = RUNNING
        => stepmem = Num(0) /\ other_entries = sacct[1]

\* C3 (as claimed): once the master is folded, every field populated on the
\* master row holds the master's value in other_entries.
C3_MasterFieldsKept_Original ==
    MasterFolded => \A k \in Fields : Populated(k) => other_entries[k] = sacct[1][k]

\* C3 (amended): once a master whose state is not PENDING is folded, every
\* field populated on the master row holds the master's value in
\* other_entries, whatever steps are folded before or after.
C3_MasterFieldsKept ==
    MasterFolded /\ MasterState # PENDING
        => \A k \in Fields : Populated(k) => other_entries[k] = sacct[1][k]

\* C3 witness: a step whose AllocCPUS differs from the master's was folded
\* after the master (its NTasks was back-filled into the empty one).
C3_Witness ==
    /\ MasterFolded
    /\ state = COMPLETED
    /\ sacct[1]["NTasks"] = << >>
    /\ \E i \in folded \ {1} :
          /\ Populated("AllocCPUS")
          /\ Has(sacct[i], "AllocCPUS")
          /\ sacct[i]["AllocCPUS"] # sacct[1]["AllocCPUS"]
          /\ other_entries["NTasks"] = sacct[i]["NTasks"]
          /\ other_entries["AllocCPUS"] = sacct[1]["AllocCPUS"]

\* the sum over the step rows of their parsed MaxRSS
RECURSIVE StepSum(_, _)
StepSum(rows, i) ==
    IF i > Len(rows) THEN Num(0)
    ELSE RAdd(IF Has(rows[i], "MaxRSS")
                     /\ parsememstep_raises(rows[i]["MaxRSS"]) = "none"
              THEN parsememstep(rows[i]["MaxRSS"])
              ELSE Num(0),
              StepSum(rows, i + 1))

\* C4: with a COMPLETED master, once every row is folded, in whatever order,
\* stepmem is the sum over the step rows of their parsed MaxRSS (0 for an
\* empty or missing one); the master's own MaxRSS is not part of it.
C4_StepMemIsSum ==
    AllFolded /\ MasterState = COMPLETED => stepmem = StepSum(sacct, 2)

\* C4 witness: two steps of 2048K and 1.5M folded before the COMPLETED master
\* (nothing was back-filled into the master's empty NTasks), summing to 3584.
C4_Witness ==
    /\ Len(sacct) = 3
    /\ AllFolded
    /\ state = COMPLETED
    /\ sacct[1]["NTasks"] = << >>
    /\ other_entries["NTasks"] = << >>
    /\ \A i \in 2..3 : Has(sacct[i], "NTasks") /\ sacct[i]["NTasks"] # << >>
    /\ sacct[2]["MaxRSS"] # sacct[3]["MaxRSS"]
    /\ stepmem = Num(3584)

-----------------------------------------------------------------------------
(* Predictor.estimate: the claims, checked under SpecPredictor *)

ReqRule      == req.rulename
ReqFit       == fits[ReqRule]
ReqBytes     == req.filesize
Done         == pc = "done"
RuleCached   == ReqRule \in DOMAIN fits
HasTimeModel == RuleCached /\ "time" \in DOMAIN ReqFit
Mature       == HasTimeModel /\ ReqFit["time"].samples >= 10
\* the range of the rule's time Model, each end a fraction n/d of a MB
RangeMin     == ReqFit["time"].range[1]
RangeMax     == ReqFit["time"].range[2]
\* bytes/2^20 < min/2, and bytes/2^20 > 3 max/2, without a division
BelowRange   == 2 * ReqBytes * RangeMin[2] < RangeMin[1] * Pow(2, 20)
AboveRange   == 2 * ReqBytes * RangeMax[2] > 3 * RangeMax[1] * Pow(2, 20)
AtRangeEdge  ==
    \/ 2 * ReqBytes * RangeMin[2] = RangeMin[1] * Pow(2, 20)
    \/ 2 * ReqBytes * RangeMax[2] = 3 * RangeMax[1] * Pow(2, 20)
GatesPass    == Mature /\ ~BelowRange /\ ~AboveRange
\* r = round(polynomial(size)) x attempt, from the rule's time Model
TimeRaw      == Fitted(ReqFit["time"], ToMB(ReqBytes)) * req.attempt
DefaultTimesAttempt ==
    ret.exc = "none" /\ ret.val = req.default * req.attempt

\* C5: whenever the rule is not in the cache, or its time Model has fewer than
\* 10 samples, or the size in MB is below 0.5 x range.min or above 1.5 x
\* range.max of its time Model, estimate returns exactly default x attempt,
\* for every resource kind and attempt; a size exactly at 0.5 x min or
\* 1.5 x max of a mature rule is not rejected as out of range.
C5_GatesReturnDefaultTimesAttempt ==
    Done =>
        /\ ~RuleCached => DefaultTimesAttempt
        /\ HasTimeModel /\ ReqFit["time"].samples < 10 => DefaultTimesAttempt
        /\ HasTimeModel /\ (BelowRange \/ AboveRange) => DefaultTimesAttempt
        /\ Mature /\ AtRangeEdge => "range" \notin ret.msgs

\* C5 witness: a mature rule, a size just above 1.5 x range.max, third attempt
\* of a short_jobs request, answered by 3 x default.
C5_Witness ==
    /\ Done /\ Mature /\ AboveRange
    /\ req.resource = "short_jobs" /\ req.attempt = 3
    /\ ret.val = 3 * req.default
    /\ "range" \in ret.msgs

\* the requested dimension has no Model for the rule
DimensionMissing == GatesPass /\ ResourceKey(req.resource) \notin DOMAIN ReqFit

\* C6 (as claimed): with a mature time Model, a size in range and no Model for
\* the requested dimension, estimate returns default, not scaled by attempt.
C6_MissingDimensionUnscaled_Original ==
    Done /\ DimensionMissing => ret.exc = "none" /\ ret.val = req.default

\* C6 (amended): in that case estimate returns default x attempt.
C6_MissingDimensionScaled ==
    Done /\ DimensionMissing => DefaultTimesAttempt /\ "no estimate" \in ret.msgs

\* C6 witness: a mem request for a rule that has a time Model only, attempt 2.
C6_Witness ==
    /\ Done /\ DimensionMissing
    /\ req.resource = "mem" /\ req.attempt = 2
    /\ ret.val = 2 * req.default

\* the same request at attempt 1
FirstAttempt == Gates(fits, [req EXCEPT !.attempt = 1])
InBand(r)    == r > 45 /\ r < 62

\* C7 (as claimed): with a mature Model and a size in range, for time and
\* mem, estimate(attempt = a) = a x estimate(attempt = 1).
C7_LinearInAttempt_Original ==
    Done /\ GatesPass /\ req.resource \in {"time", "mem"}
        => ret.exc = FirstAttempt.exc /\ ret.val = req.attempt * FirstAttempt.val

\* C7 (amended): for mem, estimate(a) = a x estimate(1) (a mem Model of zero
\* samples makes both calls raise ZeroDivisionError); for time, estimate(a)
\* is a x round(polynomial(size)) raised to 62 when strictly between 45 and
\* 62, which is a x estimate(1) whenever neither round(polynomial(size)) nor
\* a x round(polynomial(size)) lies strictly between 45 and 62.
C7_LinearInAttempt ==
    Done /\ GatesPass /\ req.resource \in {"time", "mem"}
        => /\ ret.exc = FirstAttempt.exc
           /\ req.resource = "mem" => ret.val = req.attempt * FirstAttempt.val
           /\ req.resource = "time" =>
                /\ ret.exc = "none"
                /\ ret.val = IF InBand(TimeRaw) THEN 62 ELSE TimeRaw
                /\ ~InBand(TimeRaw)
                     /\ ~InBand(Fitted(ReqFit["time"], ToMB(ReqBytes)))
                     => ret.val = req.attempt * FirstAttempt.val

\* C7 witness: a fitted mem estimate at the third attempt, three times the
\* first attempt's.
C7_Witness ==
    /\ Done /\ GatesPass
    /\ req.resource = "mem" /\ req.attempt = 3
    /\ "mem" \in DOMAIN ReqFit
    /\ ret.exc = "none"
    /\ FirstAttempt.val > 0
    /\ ret.val = 3 * FirstAttempt.val

\* C8: for time, when all gates pass, estimate returns 62 if r =
\* round(polynomial(size)) x attempt is strictly between 45 and 62 and r
\* otherwise (50 -> 62, 40 -> 40, 70 -> 70, 45 -> 45, 62 -> 62); the value
\* returned is never strictly between 45 and 62.
C8_TimeClamp ==
    Done /\ GatesPass /\ req.resource = "time"
        => /\ ret.exc = "none"
           /\ ret.val = IF 45 < TimeRaw /\ TimeRaw < 62 THEN 62 ELSE TimeRaw
           /\ ~(45 < ret.val /\ ret.val < 62)
           /\ TimeRaw = 50 => ret.val = 62
           /\ TimeRaw = 40 => ret.val = 40
           /\ TimeRaw = 70 => ret.val = 70
           /\ TimeRaw = 45 => ret.val = 45
           /\ TimeRaw = 62 => ret.val = 62

\* C8 witness: a raw time estimate of 50 minutes returned as 62.
C8_Witness ==
    /\ Done /\ GatesPass /\ req.resource = "time"
    /\ TimeRaw = 50
    /\ ret.val = 62

\* C9 (as claimed): for short_jobs, when all gates pass, estimate returns 1
\* if round(polynomial(size)) x attempt <= 61 and 0 otherwise.
C9_ShortJobs_Original ==
    Done /\ GatesPass /\ req.resource = "short_jobs"
        => ret.exc = "none" /\ ret.val = IF TimeRaw <= 61 THEN 1 ELSE 0

\* C9 (amended): for short_jobs, when all gates pass, estimate returns 1 if
\* the time estimate after the 45..62 clamp is <= 61, that is if
\* round(polynomial(size)) x attempt <= 45, and 0 otherwise: 46..61 minutes
\* are raised to 62 first and yield 0, like 62.
C9_ShortJobs ==
    Done /\ GatesPass /\ req.resource = "short_jobs"
        => /\ ret.exc = "none"
           /\ ret.val = IF TimeRaw <= 45 THEN 1 ELSE 0
           /\ TimeRaw = 61 => ret.val = 0
           /\ TimeRaw = 62 => ret.val = 0

\* C9 witness: a raw time estimate of 61 minutes, not eligible.
C9_Witness ==
    /\ Done /\ GatesPass /\ req.resource = "short_jobs"
    /\ TimeRaw = 61
    /\ ret.val = 0

-----------------------------------------------------------------------------
(* The cache reload: the claim, checked under SpecCache *)

\* the advisory printed when the cache is reloaded
UpdateMsg == IF call_changed THEN {"update"} ELSE {}

\* C10: in every interleaving with the writer of the cache file, a call that
\* starts with the file's mtime different from modified_time has replaced the
\* whole of fits by the content it read from the file before any gate is
\* evaluated, and its answer is computed from that content; a call that
\* starts with an unchanged mtime reads nothing and answers from the fits it
\* started with.
C10_ReloadBeforeGates ==
    /\ pc \in {"gates", "done"} =>
          IF call_changed
          THEN call_read # << >> /\ fits = call_read[1]
          ELSE call_read = << >> /\ fits = call_fits
    /\ pc = "done" =>
          ret = WithMsgs(Gates(IF call_changed THEN call_read[1] ELSE call_fits,
                               req), UpdateMsg)

\* C10 witness: a call that found the mtime changed, read a cache that
\* differs from the snapshot it started with, and answered differently.
C10_Witness ==
    /\ pc = "done"
    /\ call_changed
    /\ call_read # << >>
    /\ call_read[1] # call_fits
    /\ fits = call_read[1]
    /\ ret.val # Gates(call_fits, req).val

-----------------------------------------------------------------------------
(* record: the claim, checked under SpecStore *)

RowsWith(rows, k) == SelectSeq(rows, LAMBDA r : r.key = k)
IsPrefix(a, b)    == Len(a) <= Len(b) /\ SubSeq(b, 1, Len(a)) = a
Replaced(k) ==
    /\ FirstWith(old_db, k) # << >>
    /\ FirstWith(job_data, k) # << >>
    /\ FirstWith(job_data, k) # FirstWith(old_db, k)

\* C11 (as stated): after any sequence of merges the store holds exactly one
\* row for every key seen, the first row ever seen for the key, and the rows
\* stored before a merge are still there after it, in their places
C11_FirstSeenKept_Original ==
    /\ \A k \in StoreKeys : RowsWith(db, k) = first_seen[k]
    /\ IsPrefix(old_db, db)

\* C11 (amended): after a merge the store holds, for every key of the batch
\* merged, the rows of the batch for that key and no other (a row stored for
\* the key before is replaced, and a key the batch repeats is stored more
\* than once); for every other key it holds one row, the first the store
\* held for it before the merge; the rows of the batch come last; no key
\* seen is ever lost
C11_BatchReplacesStored ==
    /\ \A k \in StoreKeys :
          /\ RowsWith(db, k) = IF k \in KeysOf(job_data) THEN RowsWith(job_data, k)
                               ELSE FirstWith(old_db, k)
          /\ first_seen[k] # << >> => RowsWith(db, k) # << >>
    /\ Len(db) >= Len(job_data)
    /\ SubSeq(db, Len(db) - Len(job_data) + 1, Len(db)) = job_data

\* a merge has replaced the row stored for a key by another
C11_Witness ==
    \E k \in StoreKeys :
        /\ Replaced(k)
        /\ RowsWith(db, k) = RowsWith(job_data, k)
        /\ RowsWith(db, k) # first_seen[k]

-----------------------------------------------------------------------------
(* The scan of the log: the claims, checked under SpecLog *)

\* every step of the listing has its input line and its output line
WellListed(b) == \A i \in DOMAIN b : b[i].inputs # << >> /\ b[i].outputs # << >>
FilesOf(opt) == { opt[1][i] : i \in DOMAIN opt[1] }
\* step i reads nothing that another step of the listing writes
IsSource(b, i) ==
    \A j \in DOMAIN b \ {i} : FilesOf(b[i].inputs) \cap FilesOf(b[j].outputs) = {}
HasSource(b)   == \E i \in DOMAIN b : IsSource(b, i)
FirstSource(b) ==
    CHOOSE i \in DOMAIN b : IsSource(b, i) /\ \A j \in 1..(i - 1) : ~IsSource(b, j)

RECURSIVE TotalOf(_)
TotalOf(ns) == IF ns = << >> THEN 0 ELSE Head(ns) + TotalOf(Tail(ns))
\* the inputs of a step, counted and sized: by its size line when it has one
\* (a size that is no number counts for nothing), else by the files on disk
\* (an input not on disk counts for nothing)
OnDisk(st) == SelectSeq(st.inputs[1], LAMBDA f : f \in DOMAIN fs)
InputCount(st) ==
    IF st.sizes # << >> THEN Len(st.sizes[1]) ELSE Len(OnDisk(st))
InputSize(st) ==
    IF st.sizes # << >>
    THEN TotalOf([i \in DOMAIN st.sizes[1] |->
                    IF IsIntLit(st.sizes[1][i]) THEN DecVal(st.sizes[1][i]) ELSE 0])
    ELSE TotalOf([i \in DOMAIN OnDisk(st) |-> fs[OnDisk(st)[i]]])

\* C12: find_first_job, on a listing whose steps all have their inputs and
\* outputs, returns the first listed step that reads no output of another
\* step, and adds the count and the total size of that step's inputs to
\* num_inputs and input_size
C12_FirstJobInputs ==
    scanned = "find_first_job" /\ WellListed(block) /\ HasSource(block)
        => /\ err = "none"
           /\ first_job = <<<<W_rule, block[FirstSource(block)].name>>>>
           /\ num_inputs = Num(InputCount(block[FirstSource(block)]))
           /\ input_size = Num(InputSize(block[FirstSource(block)]))

OmitsOptional  == \E k \in OptionalFields : ~Has(sacct[1], k)
\* every step of the log has its input, size and output lines
SizesListed(b) ==
    \A i \in DOMAIN b :
        b[i].inputs # << >> /\ b[i].sizes # << >> /\ b[i].outputs # << >>

\* C13: for a job whose master row omits an optional field, update,
\* input_stats and get_entry raise nothing, and get_entry reports the field
\* left out as '---'
C13_MissingFieldsPlaceholder ==
    OmitsOptional /\ SizesListed(block)
        => /\ err = "none"
           /\ MasterFolded =>
                 \A k \in OptionalFields :
                     ~Has(sacct[1], k) => get_entry(k) = Dashes

-----------------------------------------------------------------------------
(* Predictor.estimate: the errors, checked under SpecPredictor *)

\* C14: whatever the cache holds (a rule with a Model for one dimension only,
\* a Model with no samples) and whatever is asked, estimate ends by returning
\* a value: no gate raises an exception
C14_EstimateNeverRaises == Done => ret.exc = "none"

-----------------------------------------------------------------------------
(* Job.update: efficiency, back-fill and the rows handed in; checked under Spec *)

\* the master row was folded as far as line 219
MasterDone ==
    /\ MasterFolded
    /\ MasterState \notin {PENDING, RUNNING}
    /\ TimeEffErr(sacct[1]) = "none"
    /\ CpusErr(sacct[1]) = "none"
\* elapsed seconds, and CPU seconds per allocated CPU, of the master row
ElapsedSecs ==
    IF Has(sacct[1], "Elapsed") THEN _parse_slurm_timedelta(sacct[1]["Elapsed"])
    ELSE Num(0)
CpuSecs ==
    IF Has(sacct[1], "TotalCPU") /\ Has(sacct[1], "AllocCPUS")
    THEN RDiv(_parse_slurm_timedelta(sacct[1]["TotalCPU"]),
              Num(DecVal(sacct[1]["AllocCPUS"])))
    ELSE Num(0)
CpuPercent == RMul(RDiv(CpuSecs, ElapsedSecs), Num(100))

\* C17 (as stated): after a master that is neither PENDING nor RUNNING the
\* CPU efficiency is (total CPU time / allocated CPUs) / elapsed * 100, and
\* it is 0 when the elapsed time is 0
C17_CpuEfficiency_Original ==
    MasterDone => cpu = IF IsZero(ElapsedSecs) THEN Num(0) ELSE CpuPercent

\* C17 (amended): after a master that is neither PENDING nor RUNNING the CPU
\* efficiency is (total CPU time / allocated CPUs) / elapsed * 100 rounded to
\* one decimal, the CPU time per CPU counting as 0 when TotalCPU or AllocCPUS
\* is missing; when the elapsed time is 0 or missing it is None, which
\* get_entry('CPUEff') shows as '---', and nothing is divided by it
C17_CpuEfficiency ==
    MasterDone =>
        IF IsZero(ElapsedSecs) THEN cpu = None /\ get_entry("CPUEff") = Dashes
        ELSE cpu = Round1(CpuPercent)

\* C17 witness: a master with an Elapsed of 0 seconds was folded and the
\* efficiency is None, shown as '---'; its steps were folded too
C17_Witness ==
    /\ MasterDone
    /\ AllFolded
    /\ Len(sacct) > 1
    /\ Has(sacct[1], "Elapsed")
    /\ Has(sacct[1], "TotalCPU")
    /\ IsZero(ElapsedSecs)
    /\ cpu = None
    /\ get_entry("CPUEff") = Dashes

StepsOf(rows) == 2..Len(rows)

\* C18: for a job neither RUNNING nor PENDING, once the master and the steps
\* are folded, in whatever order, other_entries holds the master's value of
\* every field populated on the master, and for every field missing or empty
\* on the master and present on a step, a value back-filled from a step
C18_BackfillOrderFree ==
    AllFolded /\ MasterState \notin {PENDING, RUNNING} =>
        \A k \in Fields :
            /\ Populated(k) => other_entries[k] = sacct[1][k]
            /\ ~Populated(k) /\ (\E i \in StepsOf(sacct) : Has(sacct[i], k)) =>
                  \E i \in StepsOf(sacct) :
                      Has(sacct[i], k) /\ other_entries[k] = sacct[i][k]

\* C19: update never modifies a row passed to it: every dict handed in has
\* the keys and values it had when it was read
C19_RowsNeverModified == entries = sacct

-----------------------------------------------------------------------------
(* The cache reload against the writer: the claim, checked under SpecCache *)

\* C20: whenever estimate evaluates its gates and the modification time in
\* modified_time is that of the cache file as it stands, written out whole,
\* fits is the content of the file; in every interleaving with the writer,
\* also after a load that failed on the half-written file (the next call
\* still finds the cache stale and reloads it)
C20_FitsAreFileAtMtime ==
    pc = "gates" /\ file_whole /\ modified_time = file_mtime => fits = file_fits

-----------------------------------------------------------------------------
(* The parsers called on their own: the claims, checked under SpecPure *)

TimedeltaDone == arg.fn = "timedelta" /\ out # NotCalled
\* the longest duration a pattern with a two-digit leading field can hold
Reach(f) ==
    CASE f = "D-HH:MM:SS" -> TenDays
      [] f = "HH:MM:SS" -> 100 * 3600
      [] f = "MM:SS.mmm" -> 100 * 60

\* C15 as stated: for each of the three formats and every s below ten days,
\* _parse_slurm_timedelta of s written in the format returns s, and a string
\* matching none of the formats returns None
C15_RoundTrip_Original ==
    TimedeltaDone =>
        /\ arg.fmt \in Formats => out = Num(arg.secs)
        /\ arg.fmt = "none" => out = None

\* C15: _parse_slurm_timedelta of s written in a format returns s when s is
\* below ten days in D-HH:MM:SS, below 100 hours in HH:MM:SS and below 100
\* minutes in MM:SS.mmm, and None when s is at or beyond that reach; a string
\* none of the patterns matches at its start returns None, and a string with
\* a duration at its start returns the seconds of that start
C15_RoundTrip ==
    TimedeltaDone =>
        /\ arg.fmt \in Formats /\ arg.secs < Reach(arg.fmt) => out = Num(arg.secs)
        /\ arg.fmt \in Formats /\ arg.secs >= Reach(arg.fmt) => out = None
        /\ arg.fmt = "none" => out = None
        /\ arg.fmt = "prefix" => out = Num(arg.secs)
\* 106 hours and more written as HH:MM:SS have been parsed, to None
C15_Witness ==
    /\ TimedeltaDone
    /\ arg.fmt = "HH:MM:SS" /\ arg.secs >= Reach("HH:MM:SS")
    /\ out = None

ParsememDone == arg.fn = "parsemem" /\ out # NotCalled
\* i(u): the place of the unit letter in K, M, G, T, E, from 0
UnitIndex(u) ==
    CASE u = "K" -> 0 [] u = "M" -> 1 [] u = "G" -> 2 [] u = "T" -> 3 [] u = "E" -> 4
\* the count the basis letter selects
CountOf(a) == IF a.basis = "n" THEN a.nodes ELSE a.cpus
\* magnitude * 1024^i(u) * count
RequestedMem(a) ==
    LET m == FloatVal(a.mag)
    IN  Scaled(m[1] * CountOf(a), m[2], UnitIndex(a.unit))

\* C16: parsemem of magnitude m, unit u and a basis letter returns
\* m * 1024^i(u) times the node count for basis n and times the CPU count
\* for any other basis; with nodes 4, cpus 8, magnitude 2 and unit G it
\* returns 2*1024*1024*4 for basis n and 2*1024*1024*8 for basis c
C16_RequestedMemory ==
    ParsememDone =>
        /\ out = RequestedMem(arg)
        /\ arg.mag = <<"2">> /\ arg.unit = "G" /\ arg.nodes = 4 /\ arg.cpus = 8 =>
              /\ arg.basis = "n" => out = Scaled(2 * 1024 * 1024 * 4, 1, 0)
              /\ arg.basis = "c" => out = Scaled(2 * 1024 * 1024 * 8, 1, 0)
\* parsemem has returned for basis n with more CPUs than nodes, a nonzero
\* magnitude and the largest unit
C16_Witness ==
    /\ ParsememDone
    /\ arg.basis = "n" /\ arg.unit = "E" /\ arg.nodes = 3 /\ arg.cpus = 8
    /\ arg.mag = <<"2", ".", "5">>
    /\ out = RequestedMem(arg)

-----------------------------------------------------------------------------
(* Estimator.fit: the claim, checked under SpecFit *)

FitReturned == fit_ret # NotCalled /\ Len(fit_ret) = 2
\* the first of the solves with the lowest cost
LowestCost(i) == \A j \in DOMAIN solves : RLe(solves[i].cost, solves[j].cost)
EarliestLowest ==
    CHOOSE i \in DOMAIN solves :
        LowestCost(i) /\ \A j \in DOMAIN solves : LowestCost(j) => i <= j
ReturnsEarliestLowest == fit_ret[2].params = solves[EarliestLowest].x
\* n coefficients, highest degree first: the leading one 1, the others 0
LeadingOne(n) == [i \in 1..n |-> IF i = 1 THEN Num(1) ELSE Num(0)]

\* C21 as stated: fit runs one solve for every degree d from min_degree up to
\* the ceiling 10 (reached or not), each started from the polynomial of
\* degree d (d + 1 coefficients, or d of them) with leading coefficient 1 and
\* the others 0, and returns the parameters of the earliest solve of lowest cost
C21_LeadingStart_Original ==
    FitReturned =>
        /\ Len(solves) \in {Ceiling - fit_call.min_deg, Ceiling - fit_call.min_deg + 1}
        /\ \A i \in DOMAIN solves :
              LET d == fit_call.min_deg + i - 1
              IN  solves[i].init \in {LeadingOne(d), LeadingOne(d + 1)}
        /\ ReturnsEarliestLowest

\* C21: fit called with min_deg from 1 to 9 runs one solve for every number
\* of coefficients n from min_deg to 9, each started from the n coefficients
\* (highest degree first, a polynomial of degree n - 1) whose last one, the
\* constant term, is 1 and whose others are 0: the constant polynomial 1; it
\* returns the parameters of the solve with the lowest cost, the earliest on a
\* tie. With min_deg 0 it raises IndexError before any solve, and with min_deg
\* 10 it runs no solve and raises AttributeError
C21_ConstantStart ==
    fit_ret # NotCalled =>
        /\ fit_call.min_deg = 0 => fit_ret = <<"IndexError">> /\ solves = << >>
        /\ fit_call.min_deg >= 10 => fit_ret = <<"AttributeError">> /\ solves = << >>
        /\ fit_call.min_deg \in 1..9 =>
              /\ FitReturned
              /\ Len(solves) = 10 - fit_call.min_deg
              /\ \A i \in DOMAIN solves :
                    LET n == fit_call.min_deg + i - 1
                    IN  /\ Len(solves[i].init) = n
                        /\ solves[i].init[n] = Num(1)
                        /\ \A j \in 1..(n - 1) : solves[i].init[j] = Num(0)
                        /\ \A x \in {Num(0), Num(1), Num(2)} :
                              polyval(solves[i].init, x) = Num(1)
              /\ ReturnsEarliestLowest
\* fit has returned after solves from one coefficient on, the lowest cost was
\* reached twice, after a higher one, and the earlier of the two is returned
C21_Witness ==
    /\ FitReturned
    /\ fit_call.min_deg = 1
    /\ \E i, j \in DOMAIN solves :
          /\ 1 < i /\ i < j
          /\ LowestCost(i) /\ LowestCost(j)
          /\ ~LowestCost(1)
          /\ \A k \in 1..(i - 1) : ~LowestCost(k)
          /\ fit_ret[2].params = solves[i].x
          /\ solves[i].x # solves[j].x

-----------------------------------------------------------------------------
(* Estimator.cost: the claim, checked under SpecPure *)

CostDone == arg.fn = "cost" /\ out # NotCalled
\* val = max(polynomial(size), 1) of sample i
ValOf(i) ==
    LET v == polyval(arg.p, arg.x[i]) IN IF RLt(v, Num(1)) THEN Num(1) ELSE v
UnderEstimate(i) == RLt(ValOf(i), arg.y[i])
\* the number of doublings of val needed to reach true
Doublings(i) ==
    CHOOSE k \in 0..8 :
        /\ RLe(arg.y[i], RMul(Num(Pow(2, k)), ValOf(i)))
        /\ k > 0 => RLt(RMul(Num(Pow(2, k - 1)), ValOf(i)), arg.y[i])
OneLess == RSub(Num(1), arg.target_eff)

\* C22: for every sample, with val = max(polynomial(size), 1), cost returns
\* true/val - target_eff when val >= true, and
\* factor + true/(2^factor * val) - target_eff, factor the number of doublings
\* of val needed to reach true, when val < true; an under-estimate has a
\* residual above 1 - target_eff, any other sample one of at most that
C22_CostResidual ==
    CostDone =>
        \A i \in DOMAIN arg.x :
            /\ ~UnderEstimate(i) =>
                  /\ out[i] = RSub(RDiv(arg.y[i], ValOf(i)), arg.target_eff)
                  /\ RLe(out[i], OneLess)
            /\ UnderEstimate(i) =>
                  /\ out[i] = RSub(RAdd(Num(Doublings(i)),
                                        RDiv(arg.y[i],
                                             RMul(Num(Pow(2, Doublings(i))), ValOf(i)))),
                                   arg.target_eff)
                  /\ RLt(OneLess, out[i])
\* cost has returned for an estimate below 1, raised to 1 and four doublings
\* short of the value, next to a sample that is no under-estimate
C22_Witness ==
    /\ CostDone
    /\ RLt(polyval(arg.p, arg.x[1]), Num(1))
    /\ UnderEstimate(1) /\ Doublings(1) = 4
    /\ ~UnderEstimate(2) /\ RLt(Num(1), ValOf(2))
    /\ RLt(OneLess, out[1]) /\ RLe(out[2], OneLess)

====
